---- MODULE Spec2Model ----
(***************************************************************************)
(* Verification model of the raphael-rs solver stack: the simulation core, *)
(* the Pareto front builder, the quality upper-bound DP, the step          *)
(* lower-bound DP, the finish solver and the branch-and-bound macro        *)
(* solver.                                                                  *)
(***************************************************************************)
EXTENDS Integers, Sequences, FiniteSets, TLC

(***************************************************************************)
(* Arithmetic helpers                                                       *)
(***************************************************************************)
Min(a, b) == IF a < b THEN a ELSE b

Max(a, b) == IF a > b THEN a ELSE b

U16MAX == 65535

U8MAX == 255

I16MAX == 32767

I8MAX == 127

\* u16::saturating_add
SatAdd16(a, b) == Min(U16MAX, a + b)

\* u16::saturating_sub
SatSub16(a, b) == Max(0, a - b)

\* units scale(n, d): integer scaling, rounded down
Scale(x, n, d) == (x * n) \div d

(***************************************************************************)
(* Action catalog                                                           *)
(***************************************************************************)
ALL_ACTIONS ==
    << "BasicSynthesis", "BasicTouch", "MasterMend", "Observe",
       "TricksOfTheTrade", "WasteNot", "Veneration", "StandardTouch",
       "GreatStrides", "Innovation", "WasteNot2", "ByregotsBlessing",
       "PreciseTouch", "MuscleMemory", "CarefulSynthesis", "Manipulation",
       "PrudentTouch", "AdvancedTouch", "Reflect", "PreparatoryTouch",
       "Groundwork", "DelicateSynthesis", "IntensiveSynthesis", "TrainedEye",
       "HeartAndSoul", "PrudentSynthesis", "TrainedFinesse", "RefinedTouch",
       "QuickInnovation", "ImmaculateMend", "TrainedPerfection" >>

Action == { ALL_ACTIONS[i] : i \in 1..Len(ALL_ACTIONS) }

Condition ==
    { "Normal", "Good", "Excellent", "Poor", "Pliant", "Sturdy", "Malleable",
      "Primed", "GoodOmen" }

time_cost(action) ==
    IF action \in { "TricksOfTheTrade", "WasteNot", "Veneration",
                    "GreatStrides", "Innovation", "WasteNot2", "Manipulation" }
    THEN 2 ELSE 3

base_cp_cost(action) ==
    CASE action = "BasicSynthesis" -> 0
      [] action = "BasicTouch" -> 18
      [] action = "MasterMend" -> 88
      [] action = "Observe" -> 7
      [] action = "TricksOfTheTrade" -> 0
      [] action = "WasteNot" -> 56
      [] action = "Veneration" -> 18
      [] action = "StandardTouch" -> 18
      [] action = "GreatStrides" -> 32
      [] action = "Innovation" -> 18
      [] action = "WasteNot2" -> 98
      [] action = "ByregotsBlessing" -> 24
      [] action = "PreciseTouch" -> 18
      [] action = "MuscleMemory" -> 6
      [] action = "CarefulSynthesis" -> 7
      [] action = "Manipulation" -> 96
      [] action = "PrudentTouch" -> 25
      [] action = "AdvancedTouch" -> 18
      [] action = "Reflect" -> 6
      [] action = "PreparatoryTouch" -> 40
      [] action = "Groundwork" -> 18
      [] action = "DelicateSynthesis" -> 32
      [] action = "IntensiveSynthesis" -> 6
      [] action = "TrainedEye" -> 250
      [] action = "HeartAndSoul" -> 0
      [] action = "PrudentSynthesis" -> 18
      [] action = "TrainedFinesse" -> 32
      [] action = "RefinedTouch" -> 24
      [] action = "QuickInnovation" -> 0
      [] action = "ImmaculateMend" -> 112
      [] action = "TrainedPerfection" -> 0

cp_cost(action, condition) ==
    IF condition = "Pliant"
    THEN (base_cp_cost(action) + 1) \div 2
    ELSE base_cp_cost(action)

base_durability_cost(action) ==
    CASE action \in { "PreparatoryTouch", "Groundwork" } -> 20
      [] action \in { "PrudentTouch", "PrudentSynthesis" } -> 5
      [] action \in { "BasicSynthesis", "BasicTouch", "StandardTouch",
                      "ByregotsBlessing", "PreciseTouch", "MuscleMemory",
                      "CarefulSynthesis", "Reflect", "DelicateSynthesis",
                      "IntensiveSynthesis", "AdvancedTouch", "RefinedTouch",
                      "TrainedEye" } -> 10
      [] OTHER -> 0

\* the cost after the condition, less the Waste Not discount
waste_not_cost(base_cost, effects) ==
    base_cost - (IF effects.waste_not > 0 THEN base_cost \div 2 ELSE 0)

\* Waste Not halving the cost rounded down
durability_cost_rounded_down(action, effects, condition) ==
    (IF condition = "Sturdy"
     THEN (base_durability_cost(action) + 1) \div 2
     ELSE base_durability_cost(action))
    \div (IF effects.waste_not > 0 THEN 2 ELSE 1)

durability_cost(action, effects, condition) ==
    waste_not_cost(IF condition = "Sturdy"
                   THEN (base_durability_cost(action) + 1) \div 2
                   ELSE base_durability_cost(action),
                   effects)

\* progress coefficient of an action, in hundredths of the base progress
base_progress_increase(action) ==
    CASE action = "BasicSynthesis" -> 120
      [] action = "MuscleMemory" -> 300
      [] action = "CarefulSynthesis" -> 180
      [] action = "Groundwork" -> 360
      [] action = "DelicateSynthesis" -> 100
      [] action = "IntensiveSynthesis" -> 400
      [] action = "PrudentSynthesis" -> 180
      [] OTHER -> 0

\* quality coefficient of an action, in hundredths of the base quality
base_quality_increase(action) ==
    CASE action = "BasicTouch" -> 100
      [] action = "StandardTouch" -> 125
      [] action = "PreciseTouch" -> 150
      [] action = "PrudentTouch" -> 100
      [] action = "Reflect" -> 100
      [] action = "PreparatoryTouch" -> 200
      [] action = "DelicateSynthesis" -> 100
      [] action = "AdvancedTouch" -> 150
      [] action = "TrainedFinesse" -> 100
      [] action = "ByregotsBlessing" -> 100
      [] action = "RefinedTouch" -> 100
      [] OTHER -> 0

\* Muscle Memory and Veneration multiplying one another
progress_with_effects_multiplied(base_progress, effects) ==
    Scale(base_progress * (IF effects.muscle_memory > 0 THEN 2 ELSE 1),
          IF effects.veneration > 0 THEN 3 ELSE 2, 2)

\* the progress of an action once Muscle Memory and Veneration are applied
progress_with_effects(base_progress, effects) ==
    base_progress
    + ((IF effects.muscle_memory > 0 THEN base_progress ELSE 0)
       + (IF effects.veneration > 0 THEN Scale(base_progress, 1, 2) ELSE 0))

progress_with_condition(coefficient, condition) ==
    IF condition = "Malleable" THEN Scale(coefficient, 3, 2) ELSE coefficient

progress_increase(action, effects, condition, settings) ==
    progress_with_effects(
        progress_with_condition(
            Scale(base_progress_increase(action), settings.base_progress, 100),
            condition),
        effects)

\* Innovation and Great Strides multiplying one another
quality_with_effects_multiplied(base_quality, effects) ==
    Scale(base_quality * (IF effects.great_strides # 0 THEN 2 ELSE 1),
          IF effects.innovation # 0 THEN 3 ELSE 2, 2)

\* the quality of an action once Innovation and Great Strides are applied
quality_with_effects(base_quality, effects) ==
    base_quality
    + (IF effects.innovation # 0 THEN Scale(base_quality, 1, 2) ELSE 0)
    + (IF effects.great_strides # 0 THEN base_quality ELSE 0)

quality_with_condition(quality, condition) ==
    CASE condition = "Good" -> Scale(quality, 3, 2)
      [] condition = "Excellent" -> Scale(quality, 4, 1)
      [] condition = "Poor" -> Scale(quality, 1, 2)
      [] OTHER -> quality

\* Byregot's Blessing grows with Inner Quiet
quality_with_byregot(coefficient, action, effects) ==
    IF action = "ByregotsBlessing"
    THEN Scale(coefficient, 2 * effects.inner_quiet + 10, 10)
    ELSE coefficient

quality_increase(action, effects, condition, settings) ==
    IF action = "TrainedEye"
    THEN settings.max_quality
    ELSE quality_with_effects(
             Scale(quality_with_condition(
                       quality_with_byregot(
                           Scale(base_quality_increase(action),
                                 settings.base_quality, 100),
                           action, effects),
                       condition),
                   10 + effects.inner_quiet, 10),
             effects)

\* the combo slot an action needs (None when it needs none)
required_combo(action) ==
    CASE action \in { "Reflect", "MuscleMemory", "TrainedEye" } -> "SynthesisBegin"
      [] action \in { "StandardTouch", "RefinedTouch" } -> "BasicTouch"
      [] action = "AdvancedTouch" -> "StandardTouch"
      [] OTHER -> "None"

\* the combo slot an action leaves behind
to_combo(action) ==
    CASE action = "BasicTouch" -> "BasicTouch"
      [] action = "StandardTouch" -> "StandardTouch"
      [] action = "Observe" -> "StandardTouch"
      [] OTHER -> "None"

(***************************************************************************)
(* Effects and simulation state                                             *)
(***************************************************************************)
NoEffects ==
    [ veneration |-> 0, innovation |-> 0, waste_not |-> 0, manipulation |-> 0,
      great_strides |-> 0, muscle_memory |-> 0, inner_quiet |-> 0, guard |-> 0,
      heart_and_soul |-> "Unused", quick_innovation_available |-> TRUE,
      trained_perfection |-> "Available" ]

Dec(x) == IF x > 0 THEN x - 1 ELSE 0

\* a tick that leaves Innovation as it is
tick_down_without_innovation(effects) ==
    [ effects EXCEPT !.veneration = Dec(@),
                     !.waste_not = Dec(@), !.manipulation = Dec(@),
                     !.great_strides = Dec(@), !.muscle_memory = Dec(@),
                     !.guard = Dec(@) ]

tick_down(effects) ==
    [ effects EXCEPT !.veneration = Dec(@), !.innovation = Dec(@),
                     !.waste_not = Dec(@), !.manipulation = Dec(@),
                     !.great_strides = Dec(@), !.muscle_memory = Dec(@),
                     !.guard = Dec(@) ]

NewState(settings) ==
    [ progress |-> 0, quality |-> 0, unreliable_quality |-> 0,
      durability |-> settings.max_durability, cp |-> settings.max_cp,
      effects |-> NoEffects, combo |-> "SynthesisBegin" ]

is_final(state, settings) ==
    state.progress >= settings.max_progress \/ state.durability <= 0

(***************************************************************************)
(* Simulation core: use_action                                              *)
(***************************************************************************)
NeedsGoodCondition(action) ==
    action \in { "TricksOfTheTrade", "PreciseTouch", "IntensiveSynthesis" }

\* the rejections without the rule of the Prudent actions
action_error_prudent_allowed(state, action, condition, settings) ==
    CASE action \notin settings.allowed_actions -> "action_disabled"
      [] is_final(state, settings) -> "no_durability"
      [] cp_cost(action, condition) > state.cp -> "insufficient_cp"
      [] required_combo(action) # "None"
           /\ required_combo(action) # state.combo -> "combo_missing"
      [] action = "ByregotsBlessing"
           /\ state.effects.inner_quiet = 0 -> "action_disabled"
      [] action = "TrainedFinesse"
           /\ state.effects.inner_quiet # 10 -> "action_disabled"
      [] NeedsGoodCondition(action)
           /\ condition \notin { "Good", "Excellent" }
           /\ state.effects.heart_and_soul # "Active" -> "action_disabled"
      [] action = "HeartAndSoul"
           /\ state.effects.heart_and_soul # "Unused" -> "single_use_consumed"
      [] action = "QuickInnovation"
           /\ (~state.effects.quick_innovation_available
               \/ state.effects.innovation > 0) -> "single_use_consumed"
      [] action = "TrainedPerfection"
           /\ state.effects.trained_perfection # "Available" -> "single_use_consumed"
      [] OTHER -> ""

\* the rejections with one more: a cost above the durability left
action_error_durability_checked(state, action, condition, settings) ==
    CASE action \notin settings.allowed_actions -> "action_disabled"
      [] is_final(state, settings) -> "no_durability"
      [] durability_cost(action, state.effects, condition) > state.durability
           /\ state.effects.trained_perfection # "Active" -> "no_durability"
      [] cp_cost(action, condition) > state.cp -> "insufficient_cp"
      [] required_combo(action) # "None"
           /\ required_combo(action) # state.combo -> "combo_missing"
      [] action = "ByregotsBlessing"
           /\ state.effects.inner_quiet = 0 -> "action_disabled"
      [] action = "TrainedFinesse"
           /\ state.effects.inner_quiet # 10 -> "action_disabled"
      [] action \in { "PrudentTouch", "PrudentSynthesis" }
           /\ state.effects.waste_not > 0 -> "action_disabled"
      [] NeedsGoodCondition(action)
           /\ condition \notin { "Good", "Excellent" }
           /\ state.effects.heart_and_soul # "Active" -> "action_disabled"
      [] action = "HeartAndSoul"
           /\ state.effects.heart_and_soul # "Unused" -> "single_use_consumed"
      [] action = "QuickInnovation"
           /\ (~state.effects.quick_innovation_available
               \/ state.effects.innovation > 0) -> "single_use_consumed"
      [] action = "TrainedPerfection"
           /\ state.effects.trained_perfection # "Available" -> "single_use_consumed"
      [] OTHER -> ""

\* the reason an action is rejected in a state, "" when it is legal
action_error(state, action, condition, settings) ==
    CASE action \notin settings.allowed_actions -> "action_disabled"
      [] is_final(state, settings) -> "no_durability"
      [] cp_cost(action, condition) > state.cp -> "insufficient_cp"
      [] required_combo(action) # "None"
           /\ required_combo(action) # state.combo -> "combo_missing"
      [] action = "ByregotsBlessing"
           /\ state.effects.inner_quiet = 0 -> "action_disabled"
      [] action = "TrainedFinesse"
           /\ state.effects.inner_quiet # 10 -> "action_disabled"
      [] action \in { "PrudentTouch", "PrudentSynthesis" }
           /\ state.effects.waste_not > 0 -> "action_disabled"
      [] NeedsGoodCondition(action)
           /\ condition \notin { "Good", "Excellent" }
           /\ state.effects.heart_and_soul # "Active" -> "action_disabled"
      [] action = "HeartAndSoul"
           /\ state.effects.heart_and_soul # "Unused" -> "single_use_consumed"
      [] action = "QuickInnovation"
           /\ (~state.effects.quick_innovation_available
               \/ state.effects.innovation > 0) -> "single_use_consumed"
      [] action = "TrainedPerfection"
           /\ state.effects.trained_perfection # "Available" -> "single_use_consumed"
      [] OTHER -> ""

inner_quiet_gain(action) ==
    CASE action \in { "PreciseTouch", "PreparatoryTouch", "Reflect",
                      "RefinedTouch" } -> 2
      [] action \in { "TrainedEye" } -> 0
      [] OTHER -> 1

\* the timed effect an action starts, set after the tick of that step
effects_after_action(effects, action) ==
    CASE action = "WasteNot" -> [ effects EXCEPT !.waste_not = 4 ]
      [] action = "WasteNot2" -> [ effects EXCEPT !.waste_not = 8 ]
      [] action = "Veneration" -> [ effects EXCEPT !.veneration = 4 ]
      [] action = "Innovation" -> [ effects EXCEPT !.innovation = 4 ]
      [] action = "GreatStrides" -> [ effects EXCEPT !.great_strides = 3 ]
      [] action = "Manipulation" -> [ effects EXCEPT !.manipulation = 8 ]
      [] action = "MuscleMemory" -> [ effects EXCEPT !.muscle_memory = 5 ]
      [] action = "QuickInnovation" ->
           [ effects EXCEPT !.innovation = 1,
                            !.quick_innovation_available = FALSE ]
      [] action = "HeartAndSoul" -> [ effects EXCEPT !.heart_and_soul = "Active" ]
      [] action = "TrainedPerfection" ->
           [ effects EXCEPT !.trained_perfection = "Active" ]
      [] OTHER -> effects

\* quality and unreliable quality after a quality gain of q, of which q_adv
\* is certain
quality_after(state, settings, q, q_adv) ==
    IF ~settings.adversarial
    THEN [ quality |-> SatAdd16(state.quality, q),
           unreliable_quality |-> state.unreliable_quality ]
    ELSE IF q_adv = 0
    THEN [ quality |-> state.quality,
           unreliable_quality |-> IF state.effects.guard = 0 THEN 0
                                  ELSE state.unreliable_quality ]
    ELSE [ quality |-> SatAdd16(state.quality,
                                q_adv + Min(state.unreliable_quality, q - q_adv)),
           unreliable_quality |-> SatSub16(q - q_adv, state.unreliable_quality) ]

\* the effects once the action has spent what it uses up
effects_spent(effects, action, condition, absorbed, p, q) ==
    [ effects EXCEPT
        !.inner_quiet =
            IF action = "ByregotsBlessing" THEN 0
            ELSE IF q > 0 THEN Min(10, @ + inner_quiet_gain(action))
            ELSE @,
        !.muscle_memory = IF p > 0 THEN 0 ELSE @,
        !.great_strides = IF q > 0 THEN 0 ELSE @,
        !.trained_perfection = IF absorbed THEN "Unavailable" ELSE @,
        !.heart_and_soul =
            IF NeedsGoodCondition(action) /\ condition \notin { "Good", "Excellent" }
            THEN "Unavailable" ELSE @ ]

\* Master's Mend adding its 30 whatever the recipe's durability is
durability_restored_uncapped(durability, action, settings) ==
    CASE action = "MasterMend" -> durability + 30
      [] action = "ImmaculateMend" -> settings.max_durability
      [] OTHER -> durability

\* the durability an action restores
durability_restored(durability, action, settings) ==
    CASE action = "MasterMend" -> Min(settings.max_durability, durability + 30)
      [] action = "ImmaculateMend" -> settings.max_durability
      [] OTHER -> durability

\* a restore that does not look at the counter left after the tick
manipulation_tick_after_last_step(durability, action, ticked, settings) ==
    IF action # "Manipulation" /\ ticked.manipulation >= 0 /\ durability > 0
    THEN Min(settings.max_durability, durability + 5)
    ELSE durability

\* a restore on the step of the Manipulation action too
manipulation_tick_on_own_step(durability, action, ticked, settings) ==
    IF ticked.manipulation > 0 /\ durability > 0
    THEN Min(settings.max_durability, durability + 5)
    ELSE durability

\* Manipulation restores 5 durability at the end of every other step
manipulation_tick(durability, action, ticked, settings) ==
    IF action # "Manipulation" /\ ticked.manipulation > 0 /\ durability > 0
    THEN Min(settings.max_durability, durability + 5)
    ELSE durability

\* the effects at the end of the step: the adversarial guard, then the
\* effect the action starts
effects_after_tick(ticked, action, settings, q) ==
    effects_after_action(
        IF settings.adversarial /\ q > 0 THEN [ ticked EXCEPT !.guard = 1 ]
        ELSE ticked,
        action)

\* the end of the step, the effects ticked down
apply_tick(state, action, settings, durability, p, q, quality, ticked) ==
    [ progress |-> SatAdd16(state.progress, p),
      quality |-> quality.quality,
      unreliable_quality |-> quality.unreliable_quality,
      durability |-> manipulation_tick(durability, action, ticked, settings),
      cp |-> IF action = "TricksOfTheTrade"
             THEN Min(settings.max_cp, state.cp + 20)
             ELSE state.cp,
      effects |-> effects_after_tick(ticked, action, settings, q),
      combo |-> to_combo(action) ]

\* the step of an action of durability cost cost, progress p and quality q
\* (q_poor under the Poor condition)
apply_gains(state, action, condition, settings, absorbed, cost, p, q, q_poor) ==
    apply_tick(
        [ state EXCEPT !.cp = @ - cp_cost(action, condition) ],
        action, settings,
        durability_restored(
            IF absorbed THEN state.durability ELSE state.durability - cost,
            action, settings),
        p, q,
        quality_after(state, settings, q,
                      IF state.effects.guard # 0 THEN q ELSE q_poor),
        tick_down(effects_spent(state.effects, action, condition, absorbed, p, q)))

\* the cost charged whatever Trained Perfection is
apply_cost_without_absorb(state, action, condition, settings, cost, p_full) ==
    apply_gains(state, action, condition, settings, FALSE, cost,
                IF action = "Groundwork" /\ state.durability < cost
                THEN p_full \div 2 ELSE p_full,
                quality_increase(action, state.effects, condition, settings),
                quality_increase(action, state.effects, "Poor", settings))

\* Trained Perfection absorbs the cost; Groundwork is halved when the
\* durability left does not cover its cost
apply_cost(state, action, condition, settings, cost, p_full) ==
    apply_gains(state, action, condition, settings,
                cost > 0 /\ state.effects.trained_perfection = "Active",
                cost,
                IF action = "Groundwork" /\ state.durability < cost
                THEN p_full \div 2 ELSE p_full,
                quality_increase(action, state.effects, condition, settings),
                quality_increase(action, state.effects, "Poor", settings))

\* the state an accepted action leads to
apply_action(state, action, condition, settings) ==
    apply_cost(state, action, condition, settings,
               durability_cost(action, state.effects, condition),
               progress_increase(action, state.effects, condition, settings))

\* Result<SimulationState, reason>
use_action(state, action, condition, settings) ==
    IF action_error(state, action, condition, settings) = ""
    THEN [ ok |-> TRUE, state |-> apply_action(state, action, condition, settings) ]
    ELSE [ ok |-> FALSE,
           err |-> action_error(state, action, condition, settings) ]

(***************************************************************************)
(* Pareto front builder.  A point is [first, second]; a front is a        *)
(* sequence of points.  The builder keeps a flat buffer, the begin index   *)
(* of each segment (0-based, as in the code) and the flat storage of       *)
(* saved fronts, an id being [offset, length].                              *)
(***************************************************************************)
ParetoValue(first, second) == [ first |-> first, second |-> second ]

\* seq[from .. to-1] with 0-based indices, as a Rust slice
Slice(seq, from, to) == SubSeq(seq, from + 1, to)

NewBuilder == [ storage |-> << >>, buffer |-> << >>, segments |-> << >> ]

clear(b) == [ b EXCEPT !.segments = << >>, !.buffer = << >> ]

push_empty(b) == [ b EXCEPT !.segments = Append(@, Len(b.buffer)) ]

push_slice(b, values) ==
    [ b EXCEPT !.segments = Append(@, Len(b.buffer)),
               !.buffer = @ \o values ]

retrieve(b, id) == Slice(b.storage, id.offset, id.offset + id.length)

push_id(b, id) == push_slice(b, retrieve(b, id))

RECURSIVE ffnd_loop_strict(_, _, _, _)
\* the loop with a dominance test that is strict in second
ffnd_loop_strict(slice_a, slice_b, idx_a, idx_b) ==
    IF idx_a >= Len(slice_a) THEN << Len(slice_a), idx_b >>
    ELSE LET a == slice_a[idx_a + 1]
             b == slice_b[idx_b + 1]
         IN  IF a.first >= b.first /\ a.second > b.second
             THEN IF idx_b + 1 >= Len(slice_b)
                  THEN << Len(slice_a), Len(slice_b) >>
                  ELSE ffnd_loop_strict(slice_a, slice_b, idx_a, idx_b + 1)
             ELSE IF b.second >= a.second
                  THEN << idx_a, idx_b >>
                  ELSE ffnd_loop_strict(slice_a, slice_b, idx_a + 1, idx_b)

RECURSIVE ffnd_loop(_, _, _, _)
ffnd_loop(slice_a, slice_b, idx_a, idx_b) ==
    IF idx_a >= Len(slice_a) THEN << Len(slice_a), idx_b >>
    ELSE LET a == slice_a[idx_a + 1]
             b == slice_b[idx_b + 1]
         IN  IF a.first >= b.first /\ a.second >= b.second
             THEN IF idx_b + 1 >= Len(slice_b)
                  THEN << Len(slice_a), Len(slice_b) >>
                  ELSE ffnd_loop(slice_a, slice_b, idx_a, idx_b + 1)
             ELSE IF b.second >= a.second
                  THEN << idx_a, idx_b >>
                  ELSE ffnd_loop(slice_a, slice_b, idx_a + 1, idx_b)

\* the first element of slice_b that slice_a does not dominate
find_first_non_dominated(slice_a, slice_b) ==
    IF slice_b = << >> THEN << Len(slice_a), Len(slice_b) >>
    ELSE ffnd_loop(slice_a, slice_b, 0, 0)

\* try_insert without the test against rolling_max
try_insert_unchecked(acc, x) ==
    [ c |-> Append(acc.c, x), rolling_max |-> x.first ]

\* try_insert that lets a point in whose first equals rolling_max
try_insert_not_strict(acc, x) ==
    IF acc.rolling_max <= x.first
    THEN [ c |-> Append(acc.c, x), rolling_max |-> x.first ]
    ELSE acc

\* try_insert: c is the merged prefix, its last kept first is rolling_max
try_insert(acc, x) ==
    IF acc.rolling_max < x.first
    THEN [ c |-> Append(acc.c, x), rolling_max |-> x.first ]
    ELSE acc

RECURSIVE merge_mixed_loop(_, _, _, _, _)
merge_mixed_loop(slice_a, slice_b, idx_a, idx_b, acc) ==
    IF idx_a < Len(slice_a) /\ idx_b < Len(slice_b)
    THEN LET a == slice_a[idx_a + 1]
             b == slice_b[idx_b + 1]
         IN  IF a.second > b.second
             THEN merge_mixed_loop(slice_a, slice_b, idx_a + 1, idx_b,
                                   try_insert(acc, a))
             ELSE IF a.second = b.second /\ a.first > b.first
             THEN merge_mixed_loop(slice_a, slice_b, idx_a + 1, idx_b + 1,
                                   try_insert(acc, a))
             ELSE IF a.second = b.second
             THEN merge_mixed_loop(slice_a, slice_b, idx_a + 1, idx_b + 1,
                                   try_insert(acc, b))
             ELSE merge_mixed_loop(slice_a, slice_b, idx_a, idx_b + 1,
                                   try_insert(acc, b))
    ELSE IF idx_a < Len(slice_a)
    THEN merge_mixed_loop(slice_a, slice_b, idx_a + 1, idx_b,
                          try_insert(acc, slice_a[idx_a + 1]))
    ELSE IF idx_b < Len(slice_b)
    THEN merge_mixed_loop(slice_a, slice_b, idx_a, idx_b + 1,
                          try_insert(acc, slice_b[idx_b + 1]))
    ELSE acc.c

merge_mixed(slice_a, slice_b, slice_c, rolling_max) ==
    merge_mixed_loop(slice_a, slice_b, 0, 0,
                     [ c |-> slice_c, rolling_max |-> rolling_max ])

RECURSIVE truncate_front(_, _)
\* begin_c moves past every point but the last with second >= max_second
truncate_front(c, max_second) ==
    IF Len(c) > 1 /\ c[2].second >= max_second
    THEN truncate_front(Tail(c), max_second)
    ELSE c

\* merge without the cut at max_first
truncate_back_skipped(c, max_first) == c

RECURSIVE truncate_back(_, _)
\* end_c moves before every point but the first with first >= max_first
truncate_back(c, max_first) ==
    IF Len(c) > 1 /\ c[Len(c) - 1].first >= max_first
    THEN truncate_back(SubSeq(c, 1, Len(c) - 1), max_first)
    ELSE c

\* the segment that merge leaves in place of the segments slice_a, slice_b
merge_slices(slice_a, slice_b, max_first, max_second) ==
    LET idx == find_first_non_dominated(slice_a, slice_b)
        idx_a == idx[1]
        idx_b == idx[2]
        merged ==
            IF idx_a >= Len(slice_a)
            THEN slice_a \o Slice(slice_b, idx_b, Len(slice_b))
            ELSE merge_mixed(Slice(slice_a, idx_a, Len(slice_a)),
                             Slice(slice_b, idx_b + 1, Len(slice_b)),
                             Append(Slice(slice_a, 0, idx_a), slice_b[idx_b + 1]),
                             slice_b[idx_b + 1].first)
    IN  IF idx_b >= Len(slice_b)
        THEN slice_a
        ELSE truncate_back(truncate_front(merged, max_second), max_first)

\* merges the last two segments into one (needs two segments)
merge(b, max_first, max_second) ==
    LET n == Len(b.segments)
        begin_b == b.segments[n]
        begin_a == b.segments[n - 1]
        slice_a == Slice(b.buffer, begin_a, begin_b)
        slice_b == Slice(b.buffer, begin_b, Len(b.buffer))
    IN  [ b EXCEPT !.segments = SubSeq(@, 1, n - 1),
                   !.buffer = Slice(@, 0, begin_a)
                              \o merge_slices(slice_a, slice_b, max_first, max_second) ]

\* Some(top segment), the builder holding at least one segment
peek(b) == Slice(b.buffer, b.segments[Len(b.segments)], Len(b.buffer))

\* the id save returns and the builder after it (needs one segment)
save_id(b) ==
    [ offset |-> Len(b.storage),
      length |-> Len(b.buffer) - b.segments[Len(b.segments)] ]

\* save that puts the segment in front of the storage
save_in_front(b) == [ b EXCEPT !.storage = peek(b) \o @ ]

save(b) == [ b EXCEPT !.storage = @ \o peek(b) ]

is_max(b, max_first, max_second) ==
    /\ b.segments # << >>
    /\ b.segments[Len(b.segments)] + 1 = Len(b.buffer)
    /\ LET element == b.buffer[Len(b.buffer)]
       IN  element.first >= max_first /\ element.second >= max_second

\* map with the shift closure of the DP solvers, on the top segment
map_shift(b, action_progress, action_quality) ==
    LET begin == b.segments[Len(b.segments)]
    IN  [ b EXCEPT !.buffer =
            [ i \in 1..Len(@) |->
                IF i > begin
                THEN ParetoValue(SatAdd16(@[i].first, action_progress),
                                 SatAdd16(@[i].second, action_quality))
                ELSE @[i] ] ]

(***************************************************************************)
(* Solver action combos                                                     *)
(***************************************************************************)
Single(action) == << action >>

Combo_TricksOfTheTrade == << "HeartAndSoul", "TricksOfTheTrade" >>

Combo_IntensiveSynthesis == << "HeartAndSoul", "IntensiveSynthesis" >>

Combo_PreciseTouch == << "HeartAndSoul", "PreciseTouch" >>

Combo_StandardTouch == << "BasicTouch", "StandardTouch" >>

Combo_AdvancedTouch == << "BasicTouch", "StandardTouch", "AdvancedTouch" >>

Combo_FocusedTouch == << "Observe", "AdvancedTouch" >>

Combo_RefinedTouch == << "BasicTouch", "RefinedTouch" >>

FULL_SEARCH_ACTIONS ==
    << Combo_AdvancedTouch, Combo_TricksOfTheTrade, Combo_IntensiveSynthesis,
       Combo_PreciseTouch, Combo_StandardTouch, Combo_FocusedTouch,
       Combo_RefinedTouch,
       Single("BasicSynthesis"), Single("Veneration"), Single("MuscleMemory"),
       Single("CarefulSynthesis"), Single("Groundwork"),
       Single("PrudentSynthesis"),
       Single("BasicTouch"), Single("StandardTouch"), Single("GreatStrides"),
       Single("Innovation"), Single("ByregotsBlessing"), Single("PrudentTouch"),
       Single("Reflect"), Single("PreparatoryTouch"), Single("AdvancedTouch"),
       Single("TrainedFinesse"), Single("TrainedEye"), Single("QuickInnovation"),
       Single("MasterMend"), Single("WasteNot"), Single("WasteNot2"),
       Single("Manipulation"), Single("ImmaculateMend"),
       Single("TrainedPerfection"),
       Single("DelicateSynthesis"), Single("TricksOfTheTrade") >>

PROGRESS_ONLY_SEARCH_ACTIONS ==
    << Combo_IntensiveSynthesis, Combo_TricksOfTheTrade,
       Single("BasicSynthesis"), Single("Veneration"), Single("MuscleMemory"),
       Single("CarefulSynthesis"), Single("Groundwork"),
       Single("PrudentSynthesis"),
       Single("MasterMend"), Single("WasteNot"), Single("WasteNot2"),
       Single("Manipulation"), Single("ImmaculateMend"),
       Single("TrainedPerfection"),
       Single("TricksOfTheTrade") >>

steps(action_combo) == Len(action_combo)

\* solver settings: [settings, durability_cost, backload_progress,
\*                   allow_unsound_branch_pruning]
is_progress_only_state(cfg, state) ==
    IF cfg.backload_progress /\ state.progress # 0 THEN TRUE
    ELSE IF cfg.allow_unsound_branch_pruning
            /\ cfg.backload_progress /\ state.effects.veneration # 0 THEN TRUE
    ELSE IF cfg.allow_unsound_branch_pruning
            /\ state.quality # 0 /\ state.effects.inner_quiet = 0 THEN TRUE
    ELSE FALSE

RECURSIVE use_actions(_, _, _, _)
RECURSIVE use_actions_from(_, _, _, _)
\* the primitives of a combo in order, under the Normal condition
use_actions(state, actions, i, settings) ==
    IF i > Len(actions) THEN [ ok |-> TRUE, state |-> state ]
    ELSE use_actions_from(use_action(state, actions[i], "Normal", settings),
                          actions, i, settings)

\* the ? on the result r of the i-th primitive
use_actions_from(r, actions, i, settings) ==
    IF r.ok THEN use_actions(r.state, actions, i + 1, settings) ELSE r

\* a progress-only state forgets what only matters to quality
strip_quality_effects(cfg, state) ==
    IF is_progress_only_state(cfg, state)
    THEN [ state EXCEPT
             !.unreliable_quality = 0,
             !.effects.inner_quiet = 0,
             !.effects.innovation = 0,
             !.effects.great_strides = 0,
             !.effects.guard = 0,
             !.effects.quick_innovation_available = FALSE ]
    ELSE state

\* the state after the primitives of a combo, r their result
after_action_combo(cfg, r) ==
    IF ~r.ok THEN r
    ELSE [ ok |-> TRUE,
           state |-> [ strip_quality_effects(cfg, r.state) EXCEPT !.combo = "None" ] ]

\* use_action_combo without the stripping of a progress-only state
use_action_combo_without_strip(cfg, state, action_combo) ==
    LET r == use_actions(state, action_combo, 1, cfg.settings)
    IN  IF ~r.ok THEN r
        ELSE [ ok |-> TRUE, state |-> [ r.state EXCEPT !.combo = "None" ] ]

use_action_combo(cfg, state, action_combo) ==
    after_action_combo(cfg, use_actions(state, action_combo, 1, cfg.settings))

(***************************************************************************)
(* Quality upper-bound solver                                               *)
(***************************************************************************)
\* the minimum CP a state must have for WasteNot to be worth trying
waste_not_min_cp(waste_not_action_cp_cost, effect_duration, durability_cost_cp) ==
    LET BASIC_SYNTH_CP == 0
        GROUNDWORK_CP == 18
        min_durability_save ==
            ((waste_not_action_cp_cost - 1) \div durability_cost_cp) + 1
        double_dur_count == min_durability_save - effect_duration
        single_dur_count == IF min_durability_save >= effect_duration
                            THEN min_durability_save - effect_duration
                            ELSE effect_duration - min_durability_save
        double_dur_cost == double_dur_count * (GROUNDWORK_CP + durability_cost_cp * 2)
        single_dur_cost == single_dur_count * (BASIC_SYNTH_CP + durability_cost_cp)
    IN  IF min_durability_save > effect_duration * 2
        THEN I16MAX
        ELSE waste_not_action_cp_cost + double_dur_cost + single_dur_cost
             - durability_cost_cp

\* the cheaper of a cost and what an allowed restoring action costs per 5
\* durability
cheaper_durability(cost, action, restored, settings) ==
    IF action \in settings.allowed_actions
    THEN Min(cost, base_cp_cost(action) \div restored) ELSE cost

\* how much CP it costs to restore 5 durability
solver_durability_cost(settings) ==
    cheaper_durability(
        cheaper_durability(
            cheaper_durability(100, "MasterMend", 6, settings),
            "Manipulation", 8, settings),
        "ImmaculateMend", (settings.max_durability \div 5) - 1, settings)

\* the solver's settings, dc the CP that 5 durability cost
solver_settings(settings, dc, backload_progress, unsound_branch_pruning) ==
    [ settings |-> [ settings EXCEPT !.max_cp = I16MAX ],
      max_progress |-> settings.max_progress,
      max_quality |-> settings.max_quality,
      durability_cost |-> dc,
      backload_progress |-> backload_progress,
      allow_unsound_branch_pruning |-> unsound_branch_pruning,
      waste_not_1_min_cp |-> waste_not_min_cp(56, 4, dc),
      waste_not_2_min_cp |-> waste_not_min_cp(98, 8, dc) ]

\* QualityUpperBoundSolver::new
QualityUpperBoundSolver_new(settings, backload_progress, unsound_branch_pruning) ==
    solver_settings(settings, solver_durability_cost(settings),
                    backload_progress, unsound_branch_pruning)

\* ReducedState: durability folded into CP, manipulation and trained
\* perfection refunded as CP, progress and quality dropped, the quality
\* still open to a worst-case condition kept
from_simulation_state_inner(state, progress_only, cfg) ==
    LET used_durability == (I8MAX - state.durability) \div 5
    IN  [ cp |-> state.cp - used_durability * cfg.durability_cost,
          unreliable_quality |-> state.unreliable_quality,
          combo |-> state.combo,
          progress_only |-> progress_only,
          effects |-> [ state.effects EXCEPT !.manipulation = 0,
                                             !.trained_perfection = "Unavailable" ] ]

\* the CP that an unused or active Trained Perfection is worth
refund_perfection(state, cfg) ==
    IF state.effects.trained_perfection = "Active"
       \/ (state.effects.trained_perfection = "Available"
           /\ "TrainedPerfection" \in cfg.settings.allowed_actions)
    THEN 4 * cfg.durability_cost ELSE 0

from_simulation_state(state, cfg) ==
    from_simulation_state_inner(
        [ state EXCEPT
            !.cp = state.cp
                   + (state.durability \div 5) * cfg.durability_cost
                   + state.effects.manipulation * cfg.durability_cost
                   + refund_perfection(state, cfg),
            !.durability = I8MAX ],
        is_progress_only_state(cfg, state), cfg)

to_simulation_state(reduced) ==
    [ progress |-> 0, quality |-> 0,
      unreliable_quality |-> reduced.unreliable_quality,
      durability |-> I8MAX, cp |-> reduced.cp,
      effects |-> reduced.effects, combo |-> reduced.combo ]

drop_combo(reduced) == [ reduced EXCEPT !.combo = "None" ]

\* the reduced state, progress and quality that the result r of the combo
\* gives
reduced_after_action(reduced, r, cfg) ==
    IF ~r.ok THEN r
    ELSE [ ok |-> TRUE,
           state |-> from_simulation_state_inner(
                         r.state,
                         reduced.progress_only
                             \/ is_progress_only_state(cfg, r.state),
                         cfg),
           progress |-> r.state.progress,
           quality |-> r.state.quality ]

\* ReducedState::use_action: Ok(new_state, action_progress, action_quality)
reduced_use_action(reduced, action, cfg) ==
    IF action \in { Single("MasterMend"), Single("ImmaculateMend"),
                    Single("Manipulation"), Single("TrainedPerfection") }
    THEN [ ok |-> FALSE, err |-> "action_disabled" ]
    ELSE reduced_after_action(
             reduced,
             use_action_combo(cfg, to_simulation_state(reduced), action),
             cfg)

should_use_action(reduced, action, cfg) ==
    CASE action = Single("WasteNot") -> reduced.cp >= cfg.waste_not_1_min_cp
      [] action = Single("WasteNot2") -> reduced.cp >= cfg.waste_not_2_min_cp
      [] OTHER -> TRUE

search_actions_of(reduced) ==
    IF reduced.progress_only
    THEN PROGRESS_ONLY_SEARCH_ACTIONS ELSE FULL_SEARCH_ACTIONS

\* the actions a combo reduced state adds to the front of its combo-less twin
combo_actions_of(combo) ==
    CASE combo = "SynthesisBegin" ->
           << Single("MuscleMemory"), Single("Reflect"), Single("TrainedEye") >>
      [] combo = "BasicTouch" ->
           << Single("RefinedTouch"), Single("StandardTouch") >>
      [] combo = "StandardTouch" -> << Single("AdvancedTouch") >>
      [] OTHER -> << >>

(***************************************************************************)
(* The solver object Q: [solved_states, pareto_front_builder, flag, fuse,  *)
(* ok].  flag is the interrupt signal as the solver last read it; fuse is  *)
(* the number of further reads that still see it clear before another      *)
(* thread sets it (-1: it is not set during the call); ok = FALSE is the   *)
(* None that the ? operator propagates.                                     *)
(***************************************************************************)
NewQualitySolver ==
    [ solved_states |-> << >>, pareto_front_builder |-> NewBuilder,
      flag |-> FALSE, fuse |-> -1, ok |-> TRUE, stack |-> << >> ]

\* interrupt_signal.is_set(): the value read and the solver after the read
is_set(Q) ==
    IF Q.flag THEN [ set |-> TRUE, Q |-> Q ]
    ELSE IF Q.fuse = 0 THEN [ set |-> TRUE, Q |-> [ Q EXCEPT !.flag = TRUE ] ]
    ELSE IF Q.fuse > 0 THEN [ set |-> FALSE, Q |-> [ Q EXCEPT !.fuse = @ - 1 ] ]
    ELSE [ set |-> FALSE, Q |-> Q ]

is_solved(Q, reduced) == reduced \in DOMAIN Q.solved_states

insert_solved(Q, reduced, id) ==
    [ Q EXCEPT !.solved_states = (reduced :> id) @@ @ ]

(***************************************************************************)
(* The recursion of solve_state is run on an explicit call stack: a frame  *)
(* is a call that has not returned, [fn, state, action, at, i], where at   *)
(* is the point the call has reached and i its loop index.  Q.ok is what   *)
(* the last call that returned gave: Some(()) or None.                      *)
(***************************************************************************)
Frame(fn, state, action) ==
    [ fn |-> fn, state |-> state, action |-> action, at |-> "entry", i |-> 0 ]

top(Q) == Q.stack[Len(Q.stack)]

\* the running call moves to another point of its body
goto(Q, at, i) ==
    [ Q EXCEPT !.stack[Len(Q.stack)].at = at, !.stack[Len(Q.stack)].i = i ]

\* the running call calls another function
call(Q, frame) == [ Q EXCEPT !.stack = Append(@, frame) ]

\* the running call returns Some(()) or None
return(Q, ok) ==
    [ Q EXCEPT !.stack = SubSeq(@, 1, Len(@) - 1), !.ok = ok ]

\* a merge of the front of the child as it is, the gain of the action left out
merge_without_shift(Q, r, cfg) ==
    [ Q EXCEPT !.pareto_front_builder =
        merge(@, cfg.max_progress, cfg.max_quality) ]

\* map and merge of build_child_front on the front of the child
shift_and_merge(Q, r, cfg) ==
    [ Q EXCEPT !.pareto_front_builder =
        merge(map_shift(@, r.progress, r.quality),
              cfg.max_progress, cfg.max_quality) ]

\* build_child_front with the point of a child that ends the craft pushed
\* and left unmerged
build_child_front_entry_without_merge(chk, r, cfg) ==
    IF chk.set THEN return(chk.Q, FALSE)
    ELSE IF ~r.ok THEN return(chk.Q, TRUE)
    ELSE IF r.state.cp >= cfg.durability_cost
    THEN IF is_solved(chk.Q, r.state)
         THEN return(
                  shift_and_merge(
                      [ chk.Q EXCEPT !.pareto_front_builder =
                          push_id(@, chk.Q.solved_states[r.state]) ],
                      r, cfg),
                  TRUE)
         ELSE call(goto(chk.Q, "solved", 0),
                   Frame("solve_state", r.state, "none"))
    ELSE IF r.state.cp >= -cfg.durability_cost /\ r.progress # 0
    THEN return(
             [ chk.Q EXCEPT !.pareto_front_builder =
                 push_slice(@, << ParetoValue(r.progress, r.quality) >>) ],
             TRUE)
    ELSE return(chk.Q, TRUE)

\* build_child_front from its start: chk the read of the interrupt flag, r
\* the result of use_action
build_child_front_entry(chk, r, cfg) ==
    IF chk.set THEN return(chk.Q, FALSE)
    ELSE IF ~r.ok THEN return(chk.Q, TRUE)
    ELSE IF r.state.cp >= cfg.durability_cost
    THEN IF is_solved(chk.Q, r.state)
         THEN return(
                  shift_and_merge(
                      [ chk.Q EXCEPT !.pareto_front_builder =
                          push_id(@, chk.Q.solved_states[r.state]) ],
                      r, cfg),
                  TRUE)
         ELSE call(goto(chk.Q, "solved", 0),
                   Frame("solve_state", r.state, "none"))
    ELSE IF r.state.cp >= -cfg.durability_cost /\ r.progress # 0
    THEN return(
             [ chk.Q EXCEPT !.pareto_front_builder =
                 merge(push_slice(@, << ParetoValue(r.progress, r.quality) >>),
                       cfg.max_progress, cfg.max_quality) ],
             TRUE)
    ELSE return(chk.Q, TRUE)

\* build_child_front once solve_state(new_state)? has returned
build_child_front_solved(Q, r, cfg) ==
    IF ~Q.ok THEN return(Q, FALSE)
    ELSE return(shift_and_merge(Q, r, cfg), TRUE)

build_child_front(Q, f, cfg) ==
    IF f.at = "entry"
    THEN build_child_front_entry(
             is_set(Q), reduced_use_action(f.state, f.action, cfg), cfg)
    ELSE build_child_front_solved(
             Q, reduced_use_action(f.state, f.action, cfg), cfg)

\* the first search action from index i on that passes should_use_action
next_action(state, i, cfg) ==
    CHOOSE j \in i..(Len(search_actions_of(state)) + 1) :
        /\ \/ j = Len(search_actions_of(state)) + 1
           \/ should_use_action(state, search_actions_of(state)[j], cfg)
        /\ \A k \in i..(j - 1) :
              ~should_use_action(state, search_actions_of(state)[k], cfg)

\* a solve_normal_state that goes on to save and insert its front when
\* build_child_front returns None
solve_normal_state_without_unwind(Q, f, cfg) ==
    IF f.at = "entry"
    THEN goto([ Q EXCEPT !.pareto_front_builder = push_empty(@) ],
              "loop", next_action(f.state, 1, cfg))
    ELSE IF f.at = "loop"
    THEN IF f.i > Len(search_actions_of(f.state))
         THEN return(
                  insert_solved([ Q EXCEPT !.pareto_front_builder = save(@) ],
                                f.state, save_id(Q.pareto_front_builder)),
                  TRUE)
         ELSE call(goto(Q, "called", f.i),
                   Frame("build_child_front", f.state,
                         search_actions_of(f.state)[f.i]))
    ELSE IF is_max(Q.pareto_front_builder, cfg.max_progress, cfg.max_quality)
    THEN goto(Q, "loop", Len(search_actions_of(f.state)) + 1)
    ELSE goto(Q, "loop", next_action(f.state, f.i + 1, cfg))

solve_normal_state(Q, f, cfg) ==
    IF f.at = "entry"
    THEN goto([ Q EXCEPT !.pareto_front_builder = push_empty(@) ],
              "loop", next_action(f.state, 1, cfg))
    ELSE IF f.at = "loop"
    THEN IF f.i > Len(search_actions_of(f.state))
         THEN return(
                  insert_solved([ Q EXCEPT !.pareto_front_builder = save(@) ],
                                f.state, save_id(Q.pareto_front_builder)),
                  TRUE)
         ELSE call(goto(Q, "called", f.i),
                   Frame("build_child_front", f.state,
                         search_actions_of(f.state)[f.i]))
    ELSE \* build_child_front(state, *action)? has returned
         IF ~Q.ok THEN return(Q, FALSE)
         ELSE IF is_max(Q.pareto_front_builder, cfg.max_progress, cfg.max_quality)
         THEN goto(Q, "loop", Len(search_actions_of(f.state)) + 1)
         ELSE goto(Q, "loop", next_action(f.state, f.i + 1, cfg))

solve_combo_state(Q, f, cfg) ==
    IF f.at = "entry"
    THEN IF is_solved(Q, drop_combo(f.state))
         THEN goto([ Q EXCEPT !.pareto_front_builder =
                       push_id(@, Q.solved_states[drop_combo(f.state)]) ],
                   "actions", 1)
         ELSE call(goto(Q, "solved", 0),
                   Frame("solve_normal_state", drop_combo(f.state), "none"))
    ELSE IF f.at = "solved"
    THEN IF ~Q.ok THEN return(Q, FALSE) ELSE goto(Q, "actions", 1)
    ELSE IF f.at = "actions"
    THEN IF f.i > Len(combo_actions_of(f.state.combo)) THEN return(Q, TRUE)
         ELSE call(goto(Q, "called", f.i),
                   Frame("build_child_front", f.state,
                         combo_actions_of(f.state.combo)[f.i]))
    ELSE \* build_child_front(state, ..)? has returned
         IF ~Q.ok THEN return(Q, FALSE) ELSE goto(Q, "actions", f.i + 1)

\* solve_state hands over to solve_normal_state or solve_combo_state, whose
\* return value is its own; chk is the read of the interrupt flag
solve_state_entry(chk, f) ==
    IF chk.set THEN return(chk.Q, FALSE)
    ELSE [ chk.Q EXCEPT !.stack[Len(chk.Q.stack)] =
             Frame(IF f.state.combo = "None" THEN "solve_normal_state"
                   ELSE "solve_combo_state",
                   f.state, "none") ]

solve_state(Q, f, cfg) == solve_state_entry(is_set(Q), f)

\* one step of the call f at the top of the stack
solver_call_step(Q, f, cfg) ==
    IF f.fn = "solve_state" THEN solve_state(Q, f, cfg)
    ELSE IF f.fn = "solve_normal_state" THEN solve_normal_state(Q, f, cfg)
    ELSE IF f.fn = "solve_combo_state" THEN solve_combo_state(Q, f, cfg)
    ELSE build_child_front(Q, f, cfg)

solver_step(Q, cfg) == solver_call_step(Q, top(Q), cfg)

\* up to 2^k steps, until the outermost call has returned
RECURSIVE solver_run(_, _, _)
RECURSIVE solver_run_on(_, _, _)
solver_run(Q, k, cfg) ==
    IF k = 0 THEN solver_step(Q, cfg)
    ELSE solver_run_on(solver_run(Q, k - 1, cfg), k, cfg)

solver_run_on(Q1, k, cfg) ==
    IF Q1.stack = << >> THEN Q1 ELSE solver_run(Q1, k - 1, cfg)

MaxRunDepth == 16

\* self.solve_state(state), run until it returns
run_solve_state(Q, state, cfg) ==
    solver_run([ Q EXCEPT !.stack = << Frame("solve_state", state, "none") >> ],
               MaxRunDepth, cfg)

\* the index binary_search_by_key returns, found or not, on a sorted front
binary_search_index(front, key) ==
    Cardinality({ i \in 1..Len(front) : front[i].first < key })

\* the bound read off the last point of the front
front_query_from_last(front, missing_progress, current_quality, cap) ==
    IF front = << >> THEN 0
    ELSE IF front[Len(front)].first < missing_progress THEN 0
    ELSE Min(cap, SatAdd16(front[Len(front)].second, current_quality))

\* the bound read off a front
front_query(front, missing_progress, current_quality, cap) ==
    IF front = << >> THEN 0
    ELSE IF front[Len(front)].first < missing_progress THEN 0
    ELSE Min(cap,
             SatAdd16(front[binary_search_index(front, missing_progress) + 1].second,
                      current_quality))

\* the bound read off the front that solve_state left on the builder
bound_of_solved(Q, state, cfg) ==
    IF Q.pareto_front_builder.segments = << >>
    THEN [ Q |-> Q, outcome |-> "Panic", bound |-> 0 ]
    ELSE [ Q |-> Q, outcome |-> "Some",
           bound |-> front_query(peek(Q.pareto_front_builder),
                                 SatSub16(cfg.max_progress, state.progress),
                                 state.quality, cfg.max_quality) ]

\* quality_upper_bound after its read chk of the interrupt flag
bound_of_reduced(chk, state, reduced_state, cfg) ==
    IF chk.set THEN [ Q |-> chk.Q, outcome |-> "None", bound |-> 0 ]
    ELSE IF is_solved(chk.Q, reduced_state)
    THEN [ Q |-> chk.Q, outcome |-> "Some",
           bound |-> front_query(
               retrieve(chk.Q.pareto_front_builder,
                        chk.Q.solved_states[reduced_state]),
               SatSub16(cfg.max_progress, state.progress),
               state.quality, cfg.max_quality) ]
    ELSE bound_of_solved(
             run_solve_state(
                 [ chk.Q EXCEPT !.pareto_front_builder = clear(@) ],
                 reduced_state, cfg),
             state, cfg)

\* quality_upper_bound: [Q, outcome, bound], the outcome "Some" (bound is
\* the value), "None" (Interrupted) or "Panic" (peek().unwrap() on a
\* builder without segment).  What solve_state returns is discarded, as in
\* the code.
quality_upper_bound(Q, state, cfg) ==
    bound_of_reduced(is_set([ Q EXCEPT !.ok = TRUE ]), state,
                     from_simulation_state(state, cfg), cfg)

(***************************************************************************)
(* Step lower-bound solver.  Two DPs over a reduced state with a step      *)
(* budget: "fast" without durability, "slow" with durability.  A DP object *)
(* T is [solved_states, pareto_front_builder].                              *)
(***************************************************************************)
DURABILITY_ACTIONS ==
    { "MasterMend", "WasteNot", "WasteNot2", "Manipulation", "ImmaculateMend",
      "TrainedPerfection" }

\* S::optimize_action_mask: without durability, durability actions are idle
step_optimize_action_mask(kind, allowed_actions) ==
    IF kind = "fast" THEN allowed_actions \ DURABILITY_ACTIONS
    ELSE allowed_actions

\* settings of a DP that leaves BasicTouch out of its actions
settings_without_basic_touch(kind, settings) ==
    [ settings EXCEPT !.allowed_actions =
        step_optimize_action_mask(kind, @) \ { "BasicTouch" } ]

\* the settings of a fast DP that also leaves the touch actions out
StepLowerBoundSolverImpl_settings_without_touch(kind, settings) ==
    [ settings EXCEPT !.allowed_actions =
        IF kind = "fast"
        THEN step_optimize_action_mask(kind, @)
                 \ { "BasicTouch", "StandardTouch" }
        ELSE step_optimize_action_mask(kind, @) ]

\* the settings a StepLowerBoundSolverImpl keeps
StepLowerBoundSolverImpl_settings(kind, settings) ==
    [ settings EXCEPT !.allowed_actions = step_optimize_action_mask(kind, @) ]

\* S::from_state: progress, quality and CP are dropped, the quality still
\* open to a worst-case condition is kept; the fast variant also drops
\* durability and what only durability makes matter
step_from_state(kind, state, steps_budget) ==
    [ steps_budget |-> steps_budget,
      durability |-> IF kind = "fast" THEN I8MAX ELSE state.durability,
      unreliable_quality |-> state.unreliable_quality,
      combo |-> state.combo,
      effects |-> IF kind = "fast"
                  THEN [ state.effects EXCEPT !.waste_not = 0,
                                              !.manipulation = 0,
                                              !.trained_perfection = "Unavailable" ]
                  ELSE state.effects ]

\* S::to_state: a full state with nothing achieved yet and CP to spare
step_to_state(reduced) ==
    [ progress |-> 0, quality |-> 0,
      unreliable_quality |-> reduced.unreliable_quality,
      durability |-> reduced.durability, cp |-> I16MAX,
      effects |-> reduced.effects, combo |-> reduced.combo ]

\* allowed_actions.actions_iter(): the mask's actions in enumeration order
actions_iter(mask) == SelectSeq(ALL_ACTIONS, LAMBDA a : a \in mask)

NewStepSolverImpl ==
    [ solved_states |-> << >>, pareto_front_builder |-> NewBuilder,
      stack |-> << >> ]

\* u16 += of the step DP's shift closure
WrapAdd16(a, b) == (a + b) % (U16MAX + 1)

map_add(b, action_progress, action_quality) ==
    LET begin == b.segments[Len(b.segments)]
    IN  [ b EXCEPT !.buffer =
            [ i \in 1..Len(@) |->
                IF i > begin
                THEN ParetoValue(WrapAdd16(@[i].first, action_progress),
                                 WrapAdd16(@[i].second, action_quality))
                ELSE @[i] ] ]

\* the end of an iteration of the loop of solve_state: break at is_max
step_next_action(T, f, settings) ==
    IF is_max(T.pareto_front_builder, settings.max_progress, settings.max_quality)
    THEN goto(T, "loop", Len(actions_iter(settings.allowed_actions)) + 1)
    ELSE goto(T, "loop", f.i + 1)

\* merge of the front of the child as it is, the action not added
step_merge_without_add(T, r, settings) ==
    [ T EXCEPT !.pareto_front_builder =
        merge(@, settings.max_progress, settings.max_quality) ]

\* map and merge of solve_state on the front of the child
step_add_and_merge(T, r, settings) ==
    [ T EXCEPT !.pareto_front_builder =
        merge(map_add(@, r.state.progress, r.state.quality),
              settings.max_progress, settings.max_quality) ]

\* save() and insert of solve_state, and its return
step_save(T, f) ==
    [ T EXCEPT !.pareto_front_builder = save(@),
               !.solved_states = (f.state :> save_id(T.pareto_front_builder)) @@ @,
               !.stack = SubSeq(@, 1, Len(@) - 1) ]

\* the body of the loop with a child that ends the recursion pushed whether
\* or not the action made progress
step_solve_action_any_point(T, f, r, new_reduced_state, settings) ==
    IF ~r.ok THEN step_next_action(T, f, settings)
    ELSE IF new_reduced_state.steps_budget # 0 /\ ~is_final(r.state, settings)
    THEN IF new_reduced_state \in DOMAIN T.solved_states
         THEN step_next_action(
                  step_add_and_merge(
                      [ T EXCEPT !.pareto_front_builder =
                          push_id(@, T.solved_states[new_reduced_state]) ],
                      r, settings),
                  f, settings)
         ELSE call(goto(T, "solved", f.i),
                   Frame("solve_state", new_reduced_state, "none"))
    ELSE step_next_action(
             [ T EXCEPT !.pareto_front_builder =
                 merge(push_slice(@, << ParetoValue(r.state.progress,
                                                    r.state.quality) >>),
                       settings.max_progress, settings.max_quality) ],
             f, settings)

\* the body of the loop with the recursion left out: a child that goes on
\* adds nothing
step_solve_action_without_recursion(T, f, r, new_reduced_state, settings) ==
    IF ~r.ok THEN step_next_action(T, f, settings)
    ELSE IF new_reduced_state.steps_budget # 0 /\ ~is_final(r.state, settings)
    THEN step_next_action(T, f, settings)
    ELSE IF r.state.progress # 0
    THEN step_next_action(
             [ T EXCEPT !.pareto_front_builder =
                 merge(push_slice(@, << ParetoValue(r.state.progress,
                                                    r.state.quality) >>),
                       settings.max_progress, settings.max_quality) ],
             f, settings)
    ELSE step_next_action(T, f, settings)

\* the body of the loop of solve_state, r the result of use_action and
\* new_reduced_state the child
step_solve_action(T, f, r, new_reduced_state, settings) ==
    IF ~r.ok THEN step_next_action(T, f, settings)
    ELSE IF new_reduced_state.steps_budget # 0 /\ ~is_final(r.state, settings)
    THEN IF new_reduced_state \in DOMAIN T.solved_states
         THEN step_next_action(
                  step_add_and_merge(
                      [ T EXCEPT !.pareto_front_builder =
                          push_id(@, T.solved_states[new_reduced_state]) ],
                      r, settings),
                  f, settings)
         ELSE call(goto(T, "solved", f.i),
                   Frame("solve_state", new_reduced_state, "none"))
    ELSE IF r.state.progress # 0
    THEN step_next_action(
             [ T EXCEPT !.pareto_front_builder =
                 merge(push_slice(@, << ParetoValue(r.state.progress,
                                                    r.state.quality) >>),
                       settings.max_progress, settings.max_quality) ],
             f, settings)
    ELSE step_next_action(T, f, settings)

\* the child of a state by the result r of use_action
step_child(kind, f, r) ==
    IF r.ok THEN step_from_state(kind, r.state, f.state.steps_budget - 1)
    ELSE f.state

\* the loop of solve_state at its f.i-th action, r the result of use_action
step_solve_loop(T, f, r, kind, settings) ==
    IF f.at = "loop"
    THEN step_solve_action(T, f, r, step_child(kind, f, r), settings)
    ELSE \* self.solve_state(new_reduced_state) has returned
         step_next_action(step_add_and_merge(T, r, settings), f, settings)

\* one step of the call f of solve_state at the top of the call stack: the
\* recursion is run on an explicit stack of frames [state, at, i]
step_solve_state(T, f, kind, settings) ==
    IF f.at = "entry"
    THEN goto([ T EXCEPT !.pareto_front_builder = push_empty(@) ], "loop", 1)
    ELSE IF f.i > Len(actions_iter(settings.allowed_actions))
    THEN step_save(T, f)
    ELSE step_solve_loop(
             T, f,
             use_action(step_to_state(f.state),
                        actions_iter(settings.allowed_actions)[f.i],
                        "Normal", settings),
             kind, settings)

\* up to 2^k steps, until the outermost call has returned
RECURSIVE step_solver_run(_, _, _, _)
RECURSIVE step_solver_run_on(_, _, _, _)
step_solver_run(T, k, kind, settings) ==
    IF k = 0 THEN step_solve_state(T, top(T), kind, settings)
    ELSE step_solver_run_on(step_solver_run(T, k - 1, kind, settings),
                            k, kind, settings)

step_solver_run_on(T1, k, kind, settings) ==
    IF T1.stack = << >> THEN T1 ELSE step_solver_run(T1, k - 1, kind, settings)

\* self.solve_state(reduced_state), run until it returns
run_step_solve_state(T, reduced_state, kind, settings) ==
    step_solver_run(
        [ T EXCEPT !.stack = << Frame("solve_state", reduced_state, "none") >> ],
        MaxRunDepth, kind, settings)

\* the bound read off the saved front of a solved reduced state
step_bound_of_solved(T, state, reduced_state, settings) ==
    [ T |-> T,
      result |-> front_query(retrieve(T.pareto_front_builder,
                                      T.solved_states[reduced_state]),
                             SatSub16(settings.max_progress, state.progress),
                             state.quality,
                             Min(U16MAX, settings.max_quality * 2)) ]

step_bound_of_reduced(T, state, reduced_state, kind, settings) ==
    IF reduced_state \in DOMAIN T.solved_states
    THEN step_bound_of_solved(T, state, reduced_state, settings)
    ELSE step_bound_of_solved(
             [ run_step_solve_state(T, reduced_state, kind, settings)
                 EXCEPT !.pareto_front_builder = clear(@) ],
             state, reduced_state, settings)

\* StepLowerBoundSolverImpl::quality_upper_bound: [T, result]
step_quality_upper_bound(T, state, step_budget, kind, settings) ==
    step_bound_of_reduced(T, state, step_from_state(kind, state, step_budget),
                          kind, settings)

\* the largest step budget the DPs are asked for; a query that would need
\* more is reported as "Unbounded"
MaxStepBudget == 8

NewStepLowerBoundSolver ==
    [ fast_solver |-> NewStepSolverImpl, slow_solver |-> NewStepSolverImpl ]

\* the solver with its fast or slow DP replaced by q.T
with_solver(SS, kind, q) ==
    [ SS |-> IF kind = "fast" THEN [ SS EXCEPT !.fast_solver = q.T ]
             ELSE [ SS EXCEPT !.slow_solver = q.T ],
      result |-> q.result ]

\* self.fast_solver.quality_upper_bound or self.slow_solver.quality_upper_bound
solver_quality_upper_bound(SS, kind, state, step_budget, settings) ==
    with_solver(
        SS, kind,
        step_quality_upper_bound(
            IF kind = "fast" THEN SS.fast_solver ELSE SS.slow_solver,
            state, step_budget, kind,
            StepLowerBoundSolverImpl_settings(kind, settings)))

RECURSIVE step_loop(_, _, _, _, _, _)
RECURSIVE step_loop_test(_, _, _, _, _, _)

\* the loops without the bisection: from the doubling straight to the
\* upward refinement
step_loop_without_bisection(SS, state, phase, lo, hi, settings) ==
    IF phase = "bisection"
    THEN step_loop(SS, state, "refine", lo, hi, settings)
    ELSE IF hi > U8MAX
    THEN [ SS |-> SS, outcome |-> "Overflow", result |-> hi ]
    ELSE IF hi > MaxStepBudget
    THEN [ SS |-> SS, outcome |-> "Unbounded",
           result |-> IF phase = "doubling" THEN lo + 1 ELSE hi ]
    ELSE step_loop_test(
             solver_quality_upper_bound(
                 SS, IF phase = "refine" THEN "slow" ELSE "fast", state, hi,
                 settings),
             state, phase, lo, hi, settings)

\* the three loops of step_lower_bound, one after the other: phase
\* "doubling" (while fast(hi) < max_quality { lo = hi; hi *= 2 }),
\* "bisection" (while lo + 1 < hi { halve on fast((lo + hi) / 2) }) and
\* "refine" (while slow(hi) < max_quality { hi += 1 }).  The result is
\* [SS, outcome, result], the outcome "Ok" (result is the bound),
\* "Overflow" (the u8 budget left its range) or "Unbounded" (more than
\* MaxStepBudget steps: result is then the least budget not yet refuted).
step_loop(SS, state, phase, lo, hi, settings) ==
    IF phase = "bisection" /\ ~(lo + 1 < hi)
    THEN step_loop(SS, state, "refine", lo, hi, settings)
    ELSE IF phase # "bisection" /\ hi > U8MAX
    THEN [ SS |-> SS, outcome |-> "Overflow", result |-> hi ]
    ELSE IF phase # "bisection" /\ hi > MaxStepBudget
    THEN [ SS |-> SS, outcome |-> "Unbounded",
           result |-> IF phase = "doubling" THEN lo + 1 ELSE hi ]
    ELSE step_loop_test(
             solver_quality_upper_bound(
                 SS, IF phase = "refine" THEN "slow" ELSE "fast", state,
                 IF phase = "bisection" THEN (lo + hi) \div 2 ELSE hi,
                 settings),
             state, phase, lo, hi, settings)

\* the loop conditions on the value q of the DP
step_loop_test(q, state, phase, lo, hi, settings) ==
    IF phase = "doubling"
    THEN IF q.result < settings.max_quality
         THEN step_loop(q.SS, state, "doubling", hi, hi * 2, settings)
         ELSE step_loop(q.SS, state, "bisection", lo, hi, settings)
    ELSE IF phase = "bisection"
    THEN IF q.result < settings.max_quality
         THEN step_loop(q.SS, state, "bisection", (lo + hi) \div 2, hi, settings)
         ELSE step_loop(q.SS, state, "bisection", lo, (lo + hi) \div 2, settings)
    ELSE IF q.result < settings.max_quality
         THEN step_loop(q.SS, state, "refine", lo, hi + 1, settings)
         ELSE [ SS |-> q.SS, outcome |-> "Ok", result |-> hi ]

\* StepLowerBoundSolver::step_lower_bound
step_lower_bound(SS, state, settings) ==
    step_loop(SS, state, "doubling", 0, 1, settings)

(***************************************************************************)
(* Action masks of the macro solver                                         *)
(***************************************************************************)
PROGRESS_ACTIONS ==
    { "BasicSynthesis", "Veneration", "MuscleMemory", "CarefulSynthesis",
      "Groundwork", "PrudentSynthesis", "DelicateSynthesis" }

QUALITY_ACTIONS ==
    { "BasicTouch", "StandardTouch", "GreatStrides", "Innovation",
      "ByregotsBlessing", "PrudentTouch", "Reflect", "PreparatoryTouch",
      "AdvancedTouch", "TrainedFinesse", "TrainedEye", "QuickInnovation" }

MACRO_FULL_SEARCH_ACTIONS ==
    (PROGRESS_ACTIONS \cup QUALITY_ACTIONS) \cup DURABILITY_ACTIONS

PROGRESS_SEARCH_ACTIONS ==
    (PROGRESS_ACTIONS \cup DURABILITY_ACTIONS) \ { "DelicateSynthesis" }

(***************************************************************************)
(* Finish solver: can some sequence of allowed actions reach max_progress? *)
(***************************************************************************)
\* quality plays no part in finishing: the search runs over the actions that
\* change progress, durability or CP
finish_actions(settings) ==
    actions_iter(settings.allowed_actions
                 \cap (PROGRESS_SEARCH_ACTIONS
                       \cup { "DelicateSynthesis", "IntensiveSynthesis",
                              "HeartAndSoul", "TricksOfTheTrade" }))

RECURSIVE can_finish(_, _)
RECURSIVE can_finish_after(_, _)
can_finish(state, settings) ==
    IF state.progress >= settings.max_progress THEN TRUE
    ELSE IF state.durability <= 0 THEN FALSE
    ELSE \E i \in 1..Len(finish_actions(settings)) :
           can_finish_after(
               use_action(state, finish_actions(settings)[i], "Normal", settings),
               settings)

\* r is the result of an action
can_finish_after(r, settings) == r.ok /\ can_finish(r.state, settings)

(***************************************************************************)
(* Search score and search queue                                            *)
(***************************************************************************)
\* SearchScore::new: quality is capped at max_quality
SearchScore_new(quality, duration, step_count, settings) ==
    [ quality |-> Min(settings.max_quality, quality),
      duration |-> duration, steps |-> step_count ]

\* a < b: b has more quality, or as much in less time, or in fewer steps
score_lt(a, b) ==
    \/ a.quality < b.quality
    \/ a.quality = b.quality /\ a.duration > b.duration
    \/ a.quality = b.quality /\ a.duration = b.duration /\ a.steps > b.steps

\* (score, quality) pairs compared with <= for <
solution_le(a_score, a_quality, b_score, b_quality) ==
    \/ score_lt(a_score, b_score)
    \/ a_score = b_score /\ a_quality <= b_quality

\* (score, quality) pairs compared as tuples
solution_lt(a_score, a_quality, b_score, b_quality) ==
    \/ score_lt(a_score, b_score)
    \/ a_score = b_score /\ a_quality < b_quality

\* SearchQueue::new: the root is backtrack entry 0 and the only node
SearchQueue_new(state, initial_score, minimum_score) ==
    [ nodes |-> IF score_lt(minimum_score, initial_score)
                THEN { [ state |-> state, score |-> initial_score, backtrack_id |-> 0 ] }
                ELSE { },
      backtracking |-> << >>,
      minimum_score |-> minimum_score ]

\* update_min_score: the minimum only rises; nodes it overtakes are dropped
update_min_score(queue, score) ==
    IF score_lt(queue.minimum_score, score)
    THEN [ queue EXCEPT !.minimum_score = score,
                        !.nodes = { n \in @ : score_lt(score, n.score) } ]
    ELSE queue

\* push: logs (parent, action); keeps the node if it beats the minimum
push(queue, state, score, action, parent_id) ==
    LET id == Len(queue.backtracking) + 1
    IN  IF score_lt(queue.minimum_score, score)
        THEN [ queue EXCEPT
                 !.backtracking = Append(@, [ action |-> action, parent |-> parent_id ]),
                 !.nodes = @ \cup { [ state |-> state, score |-> score,
                                      backtrack_id |-> id ] } ]
        ELSE queue

\* the node pop returns: best score first, the latest pushed among equals
pop_node(queue) ==
    CHOOSE n \in queue.nodes :
        \A m \in queue.nodes :
            \/ score_lt(m.score, n.score)
            \/ m.score = n.score /\ m.backtrack_id <= n.backtrack_id

RECURSIVE backtrack(_, _)
\* the actions from the root to a backtrack entry
backtrack(queue, id) ==
    IF id = 0 THEN << >>
    ELSE Append(backtrack(queue, queue.backtracking[id].parent),
                queue.backtracking[id].action)

queue_steps(queue, id) == Len(backtrack(queue, id))

(***************************************************************************)
(* fast_lower_bound: the quality of a quick roll-out that can still be     *)
(* finished.  Any roll-out of quality and durability actions may be the    *)
(* one it finds, so the operator gives the set of its possible results.    *)
(***************************************************************************)
RECURSIVE rollout_qualities(_, _)
RECURSIVE rollout_after(_, _)
rollout_qualities(state, settings) ==
    { state.quality } \cup
    UNION { rollout_after(use_action(state, a, "Normal", settings), settings)
            : a \in settings.allowed_actions
                    \cap (QUALITY_ACTIONS \cup DURABILITY_ACTIONS) }

\* r is the result of an action of the roll-out
rollout_after(r, settings) ==
    IF r.ok /\ ~is_final(r.state, settings) /\ can_finish(r.state, settings)
    THEN rollout_qualities(r.state, settings)
    ELSE { }

fast_lower_bound(state, settings) == rollout_qualities(state, settings)

(***************************************************************************)
(* Macro solver.  M is the solver during do_solve: [search_queue,          *)
(* solution, solution_callback, progress_callback, quality_upper_bound_    *)
(* solver, step_lower_bound_solver]; the two callback fields log the calls. *)
(***************************************************************************)
NoSolution == [ some |-> FALSE, actions |-> << >> ]

\* the query the macro solver makes: its solver is never interrupted
macro_quality_upper_bound(Q, state, settings) ==
    quality_upper_bound([ Q EXCEPT !.flag = FALSE, !.fuse = -1 ], state,
                        QualityUpperBoundSolver_new(settings, FALSE, FALSE))

\* a search that never plays a quality action
search_actions_progress_only(state, settings, backload_progress) ==
    PROGRESS_SEARCH_ACTIONS \cap settings.allowed_actions

\* a search that ignores backload_progress
search_actions_without_backload(state, settings, backload_progress) ==
    IF state.quality >= settings.max_quality
    THEN PROGRESS_SEARCH_ACTIONS \cap settings.allowed_actions
    ELSE MACRO_FULL_SEARCH_ACTIONS \cap settings.allowed_actions

\* the search actions with DelicateSynthesis kept among the progress actions
search_actions_with_delicate(state, settings, backload_progress) ==
    IF state.quality >= settings.max_quality
       \/ (backload_progress /\ state.progress # 0)
    THEN (PROGRESS_ACTIONS \cup DURABILITY_ACTIONS) \cap settings.allowed_actions
    ELSE MACRO_FULL_SEARCH_ACTIONS \cap settings.allowed_actions

\* the search actions of a popped state
search_actions_for(state, settings, backload_progress) ==
    IF state.quality >= settings.max_quality
       \/ (backload_progress /\ state.progress # 0)
    THEN PROGRESS_SEARCH_ACTIONS \cap settings.allowed_actions
    ELSE MACRO_FULL_SEARCH_ACTIONS \cap settings.allowed_actions

\* the push of a non-final child, q its quality upper bound and sl its
\* step lower bound
expand_push(M, node, action, child, settings, q, sl) ==
    [ M EXCEPT
        !.search_queue =
            push(update_min_score(
                     @, SearchScore_new(child.quality, U8MAX, U8MAX, settings)),
                 child,
                 SearchScore_new(q.bound,
                                 node.score.duration + time_cost(action),
                                 sl.result, settings),
                 action, node.backtrack_id),
        !.quality_upper_bound_solver = q.Q,
        !.step_lower_bound_solver = sl.SS ]

\* current_steps + 1 + step_lower_bound(state), sl the step solver's answer
add_steps(sl, current_steps) ==
    [ SS |-> sl.SS, result |-> current_steps + 1 + sl.result ]

\* the step lower bound of a non-final child of quality upper bound q
expand_scored(M, node, action, child, current_steps, settings, q) ==
    expand_push(
        M, node, action, child, settings, q,
        IF q.bound >= settings.max_quality
        THEN add_steps(step_lower_bound(M.step_lower_bound_solver, child, settings),
                       current_steps)
        ELSE [ SS |-> M.step_lower_bound_solver, result |-> current_steps + 1 ])

\* a non-final child pushed without asking the finish solver
expand_non_final_unfiltered(M, node, action, child, current_steps, settings) ==
    expand_scored(
        M, node, action, child, current_steps, settings,
        IF child.quality >= settings.max_quality
        THEN [ Q |-> M.quality_upper_bound_solver, bound |-> child.quality ]
        ELSE macro_quality_upper_bound(M.quality_upper_bound_solver,
                                       child, settings))

\* a non-final child: filtered by the finish solver, scored, pushed
expand_non_final(M, node, action, child, current_steps, settings) ==
    IF ~can_finish(child, settings) THEN M
    ELSE expand_scored(
             M, node, action, child, current_steps, settings,
             IF child.quality >= settings.max_quality
             THEN [ Q |-> M.quality_upper_bound_solver, bound |-> child.quality ]
             ELSE macro_quality_upper_bound(M.quality_upper_bound_solver,
                                            child, settings))

\* a final child recorded without raising the minimum score of the queue
expand_final_without_min_update(M, node, action, child, current_steps, settings) ==
    LET solution_score == SearchScore_new(child.quality, node.score.duration,
                                          current_steps + 1, settings)
        actions == Append(backtrack(M.search_queue, node.backtrack_id), action)
    IN  IF ~M.solution.some
           \/ solution_lt(M.solution.score, M.solution.quality,
                          solution_score, child.quality)
        THEN [ M EXCEPT
                 !.solution = [ some |-> TRUE, score |-> solution_score,
                                quality |-> child.quality, actions |-> actions ],
                 !.solution_callback = Append(@, actions),
                 !.progress_callback = @ + 1 ]
        ELSE M

\* a final child with enough progress: a candidate solution
expand_final(M, node, action, child, current_steps, settings) ==
    LET solution_score == SearchScore_new(child.quality, node.score.duration,
                                          current_steps + 1, settings)
        queue1 == update_min_score(M.search_queue, solution_score)
        actions == Append(backtrack(M.search_queue, node.backtrack_id), action)
    IN  IF ~M.solution.some
           \/ solution_lt(M.solution.score, M.solution.quality,
                          solution_score, child.quality)
        THEN [ M EXCEPT
                 !.search_queue = queue1,
                 !.solution = [ some |-> TRUE, score |-> solution_score,
                                quality |-> child.quality, actions |-> actions ],
                 !.solution_callback = Append(@, actions),
                 !.progress_callback = @ + 1 ]
        ELSE [ M EXCEPT !.search_queue = queue1 ]

\* a loop body that takes every final child for a solution
expand_child_any_final(M, node, action, r, current_steps, settings) ==
    IF ~r.ok THEN M
    ELSE IF ~is_final(r.state, settings)
    THEN expand_non_final(M, node, action, r.state, current_steps, settings)
    ELSE expand_final(M, node, action, r.state, current_steps, settings)

\* the body of the loop over the search actions, r the result of use_action
expand_child(M, node, action, r, current_steps, settings) ==
    IF ~r.ok THEN M
    ELSE IF ~is_final(r.state, settings)
    THEN expand_non_final(M, node, action, r.state, current_steps, settings)
    ELSE IF r.state.progress >= settings.max_progress
    THEN expand_final(M, node, action, r.state, current_steps, settings)
    ELSE M

\* the body of the loop over the search actions, for one action
expand_action(M, node, action, current_steps, settings) ==
    expand_child(M, node, action,
                 use_action(node.state, action, "Normal", settings),
                 current_steps, settings)

RECURSIVE expand_loop(_, _, _, _, _, _, _)
\* iterations lo..hi of the loop over the search actions, in order
expand_loop(M, node, actions, lo, hi, current_steps, settings) ==
    IF lo > hi THEN M
    ELSE IF lo = hi
    THEN expand_action(M, node, actions[lo], current_steps, settings)
    ELSE expand_loop(
             expand_loop(M, node, actions, lo, (lo + hi) \div 2,
                         current_steps, settings),
             node, actions, ((lo + hi) \div 2) + 1, hi, current_steps, settings)

\* one iteration of the while loop of do_solve, the node already popped
expand_node(M, node, settings, backload_progress) ==
    LET actions == actions_iter(search_actions_for(node.state, settings,
                                                   backload_progress))
    IN  expand_loop(M, node, actions, 1, Len(actions),
                    queue_steps(M.search_queue, node.backtrack_id), settings)

\* the queue of do_solve, q the quality upper bound of the start state and
\* sl its step lower bound
do_solve_queue(state, quality_lower_bound, settings, q, sl) ==
    [ search_queue |->
          SearchQueue_new(
              state,
              SearchScore_new(q.bound, 0, sl.result, settings),
              SearchScore_new(quality_lower_bound, U8MAX, U8MAX, settings)),
      solution |-> NoSolution,
      solution_callback |-> << >>,
      progress_callback |-> 0,
      quality_upper_bound_solver |-> q.Q,
      step_lower_bound_solver |-> sl.SS ]

do_solve_scored(SS, state, quality_lower_bound, settings, q) ==
    do_solve_queue(state, quality_lower_bound, settings, q,
                   IF q.bound >= settings.max_quality
                   THEN step_lower_bound(SS, state, settings)
                   ELSE [ SS |-> SS, result |-> 1 ])

\* the head of do_solve: the scores of the start state and the queue
do_solve_begin(Q, SS, state, quality_lower_bound, settings) ==
    do_solve_scored(SS, state, quality_lower_bound, settings,
                    macro_quality_upper_bound(Q, state, settings))

(***************************************************************************)
(* State of the model                                                       *)
(***************************************************************************)
VARIABLES
    settings,                    \* the Settings of the solvers under check
    backload_progress,           \* the argument of MacroSolver::solve
    pc,                          \* where the macro solver is
    search_queue,                \* do_solve's queue
    solution,                    \* do_solve's incumbent
    solution_callback,           \* the action lists given to solution_callback
    progress_callback,           \* the number of calls of progress_callback
    popped,                      \* do_solve's pop counter
    returned,                    \* what solve returned
    last_expansion,              \* the popped node and its search actions
    quality_upper_bound_solver,  \* a QualityUpperBoundSolver
    step_lower_bound_solver,     \* a StepLowerBoundSolver
    query,                       \* the last query made of a bound solver
    sim_state                    \* the SimulationState the queries are about

vars ==
    << settings, backload_progress, pc, search_queue, solution,
       solution_callback, progress_callback, popped, returned, last_expansion,
       quality_upper_bound_solver, step_lower_bound_solver, query,
       sim_state >>

macro_vars ==
    << search_queue, solution, solution_callback, progress_callback, popped,
       returned, last_expansion >>

(***************************************************************************)
(* Bounds of the checked instances                                          *)
(***************************************************************************)
MaxCP == 60

\* durability comes in units of 5
MaxDurabilityUnits == 6

MaxProgress == 30

MaxQuality == 30

ActionSets ==
    { { "BasicSynthesis", "BasicTouch", "MasterMend" },
      { "BasicSynthesis", "CarefulSynthesis", "BasicTouch", "StandardTouch",
        "Innovation", "MasterMend" },
      { "BasicSynthesis", "DelicateSynthesis", "BasicTouch", "Veneration",
        "GreatStrides", "Manipulation" } }

\* recipes of a tenth of the usual scale: BasicSynthesis yields 12 progress
SettingsChoices ==
    { [ max_cp |-> cp, max_durability |-> durability,
        max_progress |-> MaxProgress, max_quality |-> quality,
        base_progress |-> 10, base_quality |-> 10,
        allowed_actions |-> allowed, adversarial |-> FALSE ]
      : cp \in { MaxCP - 30, MaxCP },
        durability \in { 10, 5 * MaxDurabilityUnits },
        quality \in { MaxQuality - 10, MaxQuality },
        allowed \in ActionSets }

NoQueue == [ nodes |-> { }, backtracking |-> << >> ]

NoQuery == [ kind |-> "none" ]

NoExpansion == [ some |-> FALSE ]

InitMacroVars ==
    /\ search_queue = NoQueue
    /\ solution = NoSolution
    /\ solution_callback = << >>
    /\ progress_callback = 0
    /\ popped = 0
    /\ returned = NoSolution
    /\ last_expansion = NoExpansion

InitSolvers ==
    /\ quality_upper_bound_solver = NewQualitySolver
    /\ step_lower_bound_solver = NewStepLowerBoundSolver
    /\ query = NoQuery

(***************************************************************************)
(* The macro solver: MacroSolver::new, then one call of solve on the       *)
(* initial state of the recipe                                              *)
(***************************************************************************)
InitMacro ==
    /\ settings \in SettingsChoices
    /\ backload_progress \in BOOLEAN
    /\ pc = "solve"
    /\ InitMacroVars
    /\ InitSolvers
    /\ sim_state = NewState(settings)

start_state == NewState(settings)

\* the solver takes the values of M
MacroBecomes(M) ==
    /\ search_queue' = M.search_queue
    /\ solution' = M.solution
    /\ solution_callback' = M.solution_callback
    /\ progress_callback' = M.progress_callback
    /\ quality_upper_bound_solver' = M.quality_upper_bound_solver
    /\ step_lower_bound_solver' = M.step_lower_bound_solver

\* solve without the question to the finish solver
MacroSolveUnchecked ==
    /\ pc = "solve"
    /\ MacroBecomes(do_solve_begin(quality_upper_bound_solver,
                                   step_lower_bound_solver, start_state,
                                   0, settings))
    /\ pc' = "search"
    /\ UNCHANGED << popped, returned, last_expansion >>
    /\ UNCHANGED << settings, backload_progress, query, sim_state >>

\* solve, up to the loop of do_solve
MacroSolve ==
    /\ pc = "solve"
    /\ IF ~can_finish(start_state, settings)
       THEN /\ pc' = "done"
            /\ returned' = NoSolution
            /\ UNCHANGED << search_queue, solution, solution_callback,
                            progress_callback, popped, last_expansion,
                            quality_upper_bound_solver, step_lower_bound_solver >>
       ELSE /\ \E quality_lower_bound \in fast_lower_bound(start_state, settings) :
                 MacroBecomes(do_solve_begin(quality_upper_bound_solver,
                                             step_lower_bound_solver, start_state,
                                             quality_lower_bound, settings))
            /\ pc' = "search"
            /\ UNCHANGED << popped, returned, last_expansion >>
    /\ UNCHANGED << settings, backload_progress, query, sim_state >>

\* the solver as the loop of do_solve finds it, the node popped
MacroPopped(node) ==
    [ search_queue |-> [ search_queue EXCEPT !.nodes = @ \ { node } ],
      solution |-> solution,
      solution_callback |-> solution_callback,
      progress_callback |->
          progress_callback + (IF (popped + 1) % 65536 = 0 THEN 1 ELSE 0),
      quality_upper_bound_solver |-> quality_upper_bound_solver,
      step_lower_bound_solver |-> step_lower_bound_solver ]

\* the expansion of the popped node
MacroExpandNode(node) ==
    /\ last_expansion' =
           [ some |-> TRUE, state |-> node.state,
             actions |-> search_actions_for(node.state, settings,
                                            backload_progress),
             score |-> node.score,
             steps |-> queue_steps(search_queue, node.backtrack_id),
             minimum_score |-> search_queue.minimum_score ]
    /\ MacroBecomes(expand_node(MacroPopped(node), node, settings,
                                backload_progress))

\* one iteration of the while loop: pop a node and expand it
MacroExpand ==
    /\ pc = "search"
    /\ search_queue.nodes # { }
    /\ popped' = popped + 1
    /\ MacroExpandNode(pop_node(search_queue))
    /\ UNCHANGED << settings, backload_progress, pc, returned, query,
                    sim_state >>

\* the queue is exhausted: do_solve returns the incumbent
MacroReturn ==
    /\ pc = "search"
    /\ search_queue.nodes = { }
    /\ pc' = "done"
    /\ returned' = IF solution.some
                   THEN [ some |-> TRUE, actions |-> solution.actions ]
                   ELSE NoSolution
    /\ UNCHANGED << settings, backload_progress, search_queue, solution,
                    solution_callback, progress_callback, popped, last_expansion,
                    quality_upper_bound_solver, step_lower_bound_solver, query,
                    sim_state >>

NextMacro == MacroSolve \/ MacroExpand \/ MacroReturn

SpecMacro == InitMacro /\ [][NextMacro]_vars

(***************************************************************************)
(* The quality upper-bound solver under queries, its DP taken one step of   *)
(* the call stack at a time while another thread may set the interrupt      *)
(* signal.  sim_state is the state asked about; query is the last answer    *)
(* and the count of plays and queries so far.                               *)
(***************************************************************************)
MaxPlays == 2

MaxQueries == 2

QSettingsChoices ==
    { s \in SettingsChoices :
        /\ s.max_cp = MaxCP - 30
        /\ s.max_durability = 5 * MaxDurabilityUnits
        /\ s.max_quality = MaxQuality - 10 }

\* QualityUpperBoundSolver::new for the settings under check
solver_cfg == QualityUpperBoundSolver_new(settings, backload_progress, FALSE)

InitQ ==
    /\ settings \in QSettingsChoices
    /\ backload_progress \in BOOLEAN
    /\ pc = "idle"
    /\ InitMacroVars
    /\ quality_upper_bound_solver = NewQualitySolver
    /\ step_lower_bound_solver = NewStepLowerBoundSolver
    /\ query = [ kind |-> "none", plays |-> 0, count |-> 0 ]
    /\ sim_state = NewState(settings)

\* the caller moves on to a child state
QPlay ==
    /\ pc = "idle"
    /\ query.plays < MaxPlays
    /\ ~is_final(sim_state, settings)
    /\ \E a \in settings.allowed_actions :
           /\ use_action(sim_state, a, "Normal", settings).ok
           /\ sim_state' = use_action(sim_state, a, "Normal", settings).state
    /\ query' = [ query EXCEPT !.plays = @ + 1 ]
    /\ UNCHANGED << settings, backload_progress, pc, macro_vars,
                    quality_upper_bound_solver, step_lower_bound_solver >>

\* the answer of a query that never entered the DP
QAnswered(b) ==
    /\ pc' = "answered"
    /\ quality_upper_bound_solver' = b.Q
    /\ query' = [ kind |-> "quality", plays |-> query.plays,
                  count |-> query.count + 1, outcome |-> b.outcome,
                  bound |-> b.bound, observed |-> b.outcome = "None",
                  solved |-> FALSE ]

\* quality_upper_bound up to the call of solve_state, chk its read of the
\* interrupt signal
QEnterChecked(chk, reduced_state) ==
    IF chk.set \/ is_solved(chk.Q, reduced_state)
    THEN QAnswered(bound_of_reduced(chk, sim_state, reduced_state, solver_cfg))
    ELSE /\ pc' = "solving"
         /\ quality_upper_bound_solver' =
                [ chk.Q EXCEPT !.pareto_front_builder = clear(@),
                               !.stack = << Frame("solve_state", reduced_state,
                                                  "none") >> ]
         /\ query' = [ kind |-> "none", plays |-> query.plays,
                       count |-> query.count ]

QEnter ==
    /\ pc = "idle"
    /\ query.count < MaxQueries
    /\ QEnterChecked(is_set([ quality_upper_bound_solver EXCEPT !.ok = TRUE ]),
                     from_simulation_state(sim_state, solver_cfg))
    /\ UNCHANGED << settings, backload_progress, macro_vars,
                    step_lower_bound_solver, sim_state >>

\* one step of the DP
QStep ==
    /\ pc = "solving"
    /\ quality_upper_bound_solver.stack # << >>
    /\ quality_upper_bound_solver' =
           solver_step(quality_upper_bound_solver, solver_cfg)
    /\ UNCHANGED << settings, backload_progress, pc, macro_vars,
                    step_lower_bound_solver, query, sim_state >>

\* solve_state has returned: its value is dropped and the bound is read off
\* the builder
QLeaveWith(b) ==
    /\ pc' = "answered"
    /\ query' = [ kind |-> "quality", plays |-> query.plays,
                  count |-> query.count + 1, outcome |-> b.outcome,
                  bound |-> b.bound,
                  observed |-> ~quality_upper_bound_solver.ok,
                  solved |-> TRUE ]

QLeave ==
    /\ pc = "solving"
    /\ quality_upper_bound_solver.stack = << >>
    /\ QLeaveWith(bound_of_solved(quality_upper_bound_solver, sim_state,
                                  solver_cfg))
    /\ UNCHANGED << settings, backload_progress, macro_vars,
                    quality_upper_bound_solver, step_lower_bound_solver,
                    sim_state >>

\* another thread sets the interrupt signal
QInterrupt ==
    /\ pc \in { "idle", "solving" }
    /\ ~quality_upper_bound_solver.flag
    /\ quality_upper_bound_solver' =
           [ quality_upper_bound_solver EXCEPT !.flag = TRUE ]
    /\ UNCHANGED << settings, backload_progress, pc, macro_vars,
                    step_lower_bound_solver, query, sim_state >>

\* the caller takes the answer; a panic ends the run
QTake ==
    /\ pc = "answered"
    /\ query.outcome # "Panic"
    /\ pc' = "idle"
    /\ UNCHANGED << settings, backload_progress, macro_vars,
                    quality_upper_bound_solver, step_lower_bound_solver,
                    query, sim_state >>

NextQ == QPlay \/ QEnter \/ QStep \/ QLeave \/ QInterrupt \/ QTake

SpecQ == InitQ /\ [][NextQ]_vars

(***************************************************************************)
(* The step lower-bound solver under the loop of monotonic_fuzz_check: the  *)
(* bound of a state, then the bound of each of its children in the order    *)
(* of actions_iter, on one solver.                                          *)
(***************************************************************************)
MaxStepPlays == 1

StepSettingsChoices ==
    { [ max_cp |-> MaxCP, max_durability |-> 5 * MaxDurabilityUnits,
        max_progress |-> progress, max_quality |-> MaxQuality - 20,
        base_progress |-> 10, base_quality |-> 10,
        allowed_actions |-> allowed, adversarial |-> adversarial ]
      : progress \in { MaxProgress - 18, MaxProgress },
        allowed \in ActionSets,
        adversarial \in BOOLEAN }

\* states as random_state draws them: nothing achieved, some effects on
random_states(cfg) ==
    { [ NewState(cfg) EXCEPT !.effects.inner_quiet = inner_quiet,
                             !.effects.guard = guard,
                             !.combo = combo ]
      : inner_quiet \in { 0, 2 },
        guard \in IF cfg.adversarial THEN { 0, 1 } ELSE { 0 },
        combo \in { "None", "BasicTouch" } }

InitStep ==
    /\ settings \in StepSettingsChoices
    /\ backload_progress = FALSE
    /\ pc = "idle"
    /\ InitMacroVars
    /\ quality_upper_bound_solver = NewQualitySolver
    /\ step_lower_bound_solver = NewStepLowerBoundSolver
    /\ query = [ kind |-> "none", plays |-> 0 ]
    /\ sim_state \in random_states(settings)

\* the answer sl of step_lower_bound for the state under check
StepAsked(sl) ==
    /\ step_lower_bound_solver' = sl.SS
    /\ query' = [ kind |-> "step", plays |-> query.plays,
                  outcome |-> sl.outcome, result |-> sl.result, i |-> 1 ]

\* let state_lower_bound = solver.step_lower_bound(state)
StepQuery ==
    /\ pc = "idle"
    /\ ~is_final(sim_state, settings)
    /\ StepAsked(step_lower_bound(step_lower_bound_solver, sim_state, settings))
    /\ pc' = "children"
    /\ UNCHANGED << settings, backload_progress, macro_vars,
                    quality_upper_bound_solver, sim_state >>

\* child_lower_bound of the test for the result r of use_action: [SS,
\* outcome, result]
child_lower_bound(SS, r, cfg) ==
    IF ~r.ok THEN [ SS |-> SS, outcome |-> "Ok", result |-> U8MAX ]
    ELSE IF ~is_final(r.state, cfg) THEN step_lower_bound(SS, r.state, cfg)
    ELSE IF r.state.progress >= cfg.max_progress
            /\ r.state.quality >= cfg.max_quality
    THEN [ SS |-> SS, outcome |-> "Ok", result |-> 0 ]
    ELSE [ SS |-> SS, outcome |-> "Ok", result |-> U8MAX ]

StepChildAsked(action, r, sl) ==
    /\ step_lower_bound_solver' = sl.SS
    /\ query' = [ kind |-> "child", plays |-> query.plays,
                  outcome |-> query.outcome, result |-> query.result,
                  i |-> query.i + 1, action |-> action, legal |-> r.ok,
                  child |-> IF r.ok THEN r.state ELSE sim_state,
                  child_outcome |-> sl.outcome,
                  child_result |-> sl.result ]

StepChildOf(action, r) ==
    StepChildAsked(action, r, child_lower_bound(step_lower_bound_solver, r, settings))

\* one iteration of the loop over the allowed actions
StepChild ==
    /\ pc = "children"
    /\ query.i <= Len(actions_iter(settings.allowed_actions))
    /\ StepChildOf(actions_iter(settings.allowed_actions)[query.i],
                   use_action(sim_state,
                              actions_iter(settings.allowed_actions)[query.i],
                              "Normal", settings))
    /\ UNCHANGED << settings, backload_progress, pc, macro_vars,
                    quality_upper_bound_solver, sim_state >>

\* the loop over the actions is over
StepChildrenDone ==
    /\ pc = "children"
    /\ query.i > Len(actions_iter(settings.allowed_actions))
    /\ pc' = "idle"
    /\ query' = [ kind |-> "none", plays |-> query.plays ]
    /\ UNCHANGED << settings, backload_progress, macro_vars,
                    quality_upper_bound_solver, step_lower_bound_solver,
                    sim_state >>

\* the next state under check is a child of this one
StepPlay ==
    /\ pc = "idle"
    /\ query.plays < MaxStepPlays
    /\ ~is_final(sim_state, settings)
    /\ \E a \in settings.allowed_actions :
           /\ use_action(sim_state, a, "Normal", settings).ok
           /\ sim_state' = use_action(sim_state, a, "Normal", settings).state
    /\ query' = [ query EXCEPT !.plays = @ + 1 ]
    /\ UNCHANGED << settings, backload_progress, pc, macro_vars,
                    quality_upper_bound_solver, step_lower_bound_solver >>

NextStep == StepQuery \/ StepChild \/ StepChildrenDone \/ StepPlay

SpecStep == InitStep /\ [][NextStep]_vars

(***************************************************************************)
(* Reference semantics: exhaustive play of the simulator                    *)
(***************************************************************************)
SetMax(S) == CHOOSE m \in S : \A x \in S : x <= m

SetMin(S) == CHOOSE m \in S : \A x \in S : m <= x

\* the actions of a play that keeps all progress behind all quality
backload_actions == (PROGRESS_ACTIONS \cup DURABILITY_ACTIONS) \ { "DelicateSynthesis" }

\* the actions a legal play may take in a state
legal_actions(state, cfg, backload) ==
    IF backload /\ state.progress # 0
    THEN cfg.allowed_actions \cap backload_actions
    ELSE cfg.allowed_actions

RECURSIVE best_finish_quality(_, _, _)
RECURSIVE best_finish_after(_, _, _)
\* the largest capped quality of a legal play from state that ends with
\* progress >= max_progress, -1 when no play does
best_finish_quality(state, cfg, backload) ==
    IF is_final(state, cfg)
    THEN IF state.progress >= cfg.max_progress
         THEN Min(cfg.max_quality, state.quality)
         ELSE -1
    ELSE SetMax({ -1 } \cup
                { best_finish_after(use_action(state, a, "Normal", cfg), cfg, backload)
                  : a \in legal_actions(state, cfg, backload) })

best_finish_after(r, cfg, backload) ==
    IF r.ok THEN best_finish_quality(r.state, cfg, backload) ELSE -1

RECURSIVE replay(_, _, _)
\* the actions played in order from state: [ok, state], ok FALSE as soon as
\* an action is rejected or is played on a final state
replay(state, actions, cfg) ==
    IF actions = << >> THEN [ ok |-> TRUE, state |-> state ]
    ELSE IF is_final(state, cfg) THEN [ ok |-> FALSE, state |-> state ]
    ELSE IF ~use_action(state, Head(actions), "Normal", cfg).ok
    THEN [ ok |-> FALSE, state |-> state ]
    ELSE replay(use_action(state, Head(actions), "Normal", cfg).state,
                Tail(actions), cfg)

\* the list replays from the start state and ends with the progress maxed
finishes(actions) ==
    /\ replay(start_state, actions, settings).ok
    /\ replay(start_state, actions, settings).state.progress >= settings.max_progress

final_quality(actions) ==
    Min(settings.max_quality, replay(start_state, actions, settings).state.quality)

\* the state before action i of the list
state_before(actions, i) ==
    replay(start_state, SubSeq(actions, 1, i - 1), settings).state

\* once the state has progress, the list plays backload actions only and
\* the quality stays as it is
backloaded(actions) ==
    \A i \in 1..Len(actions) :
        state_before(actions, i).progress # 0 =>
            /\ actions[i] \in backload_actions
            /\ state_before(actions, i + 1).quality = state_before(actions, i).quality

\* the action lists the macro solver has in hand: the paths of the queued
\* nodes, the lists given to the callback and the list returned
macro_lists ==
    { backtrack(search_queue, n.backtrack_id) : n \in search_queue.nodes }
    \cup { solution_callback[i] : i \in 1..Len(solution_callback) }
    \cup (IF returned.some THEN { returned.actions } ELSE { })

(***************************************************************************)
(* Claims about the macro solver, checked under SpecMacro                   *)
(***************************************************************************)
\* C1: when solve returns a sequence, no legal play from the start state
\* (Normal condition, allowed actions, backload restriction when set) that
\* ends with progress >= max_progress has a strictly higher capped quality.
C1_MacroOptimal ==
    (pc = "done" /\ returned.some) =>
        final_quality(returned.actions)
            >= best_finish_quality(start_state, settings, backload_progress)

\* solve returned a sequence of positive quality although plays of quality 0
\* finish too
C1_Witness ==
    /\ pc = "done"
    /\ returned.some
    /\ final_quality(returned.actions) > 0
    /\ Len(solution_callback) >= 2

\* C2: every list solve returns or passes to the solution callback replays
\* from the start state with no action rejected and ends with
\* progress >= max_progress.
C2_ListsReplay ==
    /\ \A i \in 1..Len(solution_callback) : finishes(solution_callback[i])
    /\ returned.some => finishes(returned.actions)

C2_Witness ==
    /\ returned.some
    /\ Len(returned.actions) >= 3
    /\ Len(solution_callback) >= 2

\* C6: if the finish solver says the start state cannot reach max_progress,
\* solve returns no solution at once: no queue is built, no state expanded,
\* no callback invoked.
C6_NoSolutionAtOnce ==
    ~can_finish(start_state, settings) =>
        /\ pc \in { "solve", "done" }
        /\ search_queue = NoQueue
        /\ popped = 0
        /\ last_expansion = NoExpansion
        /\ solution_callback = << >>
        /\ progress_callback = 0
        /\ ~returned.some

C6_Witness == pc = "done" /\ ~can_finish(start_state, settings)

\* C7: a non-final state that can_finish rejects is never on the search
\* queue, and no solution reported passes through such a state.
C7_UnfinishableNeverQueued ==
    /\ \A n \in search_queue.nodes :
           is_final(n.state, settings) \/ can_finish(n.state, settings)
    /\ \A i \in 1..Len(solution_callback) :
           \A k \in 1..Len(solution_callback[i]) :
               can_finish(state_before(solution_callback[i], k), settings)

\* an expansion met a non-final child that cannot finish
C7_Witness ==
    /\ last_expansion.some
    /\ \E a \in last_expansion.actions :
           /\ use_action(last_expansion.state, a, "Normal", settings).ok
           /\ ~is_final(use_action(last_expansion.state, a, "Normal", settings).state,
                        settings)
           /\ ~can_finish(use_action(last_expansion.state, a, "Normal", settings).state,
                          settings)

\* C8: with backload_progress set, in every sequence the macro solver
\* expands or returns, once the state has nonzero progress only progress and
\* durability actions (DelicateSynthesis excluded) are played and the
\* quality no longer rises.
C8_BackloadOrder ==
    backload_progress => \A actions \in macro_lists : backloaded(actions)

\* a returned list under backload that raises quality, then progress
C8_Witness ==
    /\ backload_progress
    /\ returned.some
    /\ final_quality(returned.actions) > 0

(***************************************************************************)
(* Claims about the quality upper-bound solver, checked under SpecQ         *)
(***************************************************************************)
\* C3: for every state s, every legal continuation from s (Normal
\* condition) that ends in a final state t with progress >= max_progress
\* has min(max_quality, quality(t)) <= quality_upper_bound(s).
C3_QualityBoundAdmissible ==
    (pc = "answered" /\ query.outcome = "Some" /\ ~query.observed) =>
        best_finish_quality(sim_state, settings, backload_progress) <= query.bound

\* a bound was computed by the DP for a state from which a play of positive
\* quality finishes
C3_Witness ==
    /\ pc = "answered"
    /\ query.outcome = "Some"
    /\ ~query.observed
    /\ query.solved
    /\ query.plays > 0
    /\ best_finish_quality(sim_state, settings, backload_progress) > sim_state.quality

\* C9: if the interrupt flag is set when quality_upper_bound is entered, or
\* is seen set at a recursive step of its DP, the call returns None: it
\* neither returns a bound read from an incompletely built front nor panics.
C9_InterruptedReturnsNone ==
    (pc = "answered" /\ query.observed) => query.outcome = "None"

\* the DP saw the signal and the call returned a bound all the same
C9_BoundFromAbandonedFront ==
    ~(pc = "answered" /\ query.observed /\ query.outcome = "Some")

\* the DP saw the signal before it built any front and the call panicked
C9_PanicOnEmptyBuilder ==
    ~(pc = "answered" /\ query.observed /\ query.outcome = "Panic")

\* the front of a memo entry, built anew by a solve that nothing interrupts
\* and that finds the other entries of the table
front_built_anew(Q, reduced, cfg) ==
    run_solve_state(
        [ Q EXCEPT !.solved_states =
                       [ x \in (DOMAIN Q.solved_states) \ { reduced } |->
                           Q.solved_states[x] ],
                   !.flag = FALSE, !.fuse = -1, !.ok = TRUE, !.stack = << >> ],
        reduced, cfg)

memo_front(Q, reduced) ==
    retrieve(Q.pareto_front_builder, Q.solved_states[reduced])

\* the entry holds the front a complete solve of its state builds
entry_complete(Q, reduced, cfg) ==
    memo_front(front_built_anew(Q, reduced, cfg), reduced) = memo_front(Q, reduced)

\* a step keeps the entries of the table and adds complete entries only
C10_Step ==
    /\ \A r \in DOMAIN quality_upper_bound_solver.solved_states :
           /\ r \in DOMAIN quality_upper_bound_solver'.solved_states
           /\ memo_front(quality_upper_bound_solver', r)
                  = memo_front(quality_upper_bound_solver, r)
    /\ \A r \in (DOMAIN quality_upper_bound_solver'.solved_states)
                    \ (DOMAIN quality_upper_bound_solver.solved_states) :
           entry_complete(quality_upper_bound_solver', r, solver_cfg)

\* C10: at every point, also after an interrupted solve, every entry of the
\* memo table holds the complete Pareto front of its reduced state; a front
\* abandoned by an interrupt is never inserted.
C10_MemoComplete == [][C10_Step]_vars

\* an interrupted solve has ended and left entries in the table
C10_Witness ==
    /\ pc = "answered"
    /\ query.observed
    /\ query.solved
    /\ DOMAIN quality_upper_bound_solver.solved_states # { }

(***************************************************************************)
(* Claims about the step lower-bound solver, checked under SpecStep         *)
(***************************************************************************)
RECURSIVE min_finish_steps(_, _)
RECURSIVE min_finish_steps_after(_, _)
\* the least number of actions of a legal play from state that ends with
\* progress >= max_progress and quality >= max_quality, U8MAX when no play
\* does
min_finish_steps(state, cfg) ==
    IF is_final(state, cfg)
    THEN IF state.progress >= cfg.max_progress /\ state.quality >= cfg.max_quality
         THEN 0
         ELSE U8MAX
    ELSE SetMin({ U8MAX } \cup
                { min_finish_steps_after(use_action(state, a, "Normal", cfg), cfg)
                  : a \in cfg.allowed_actions })

min_finish_steps_after(r, cfg) ==
    IF r.ok THEN Min(U8MAX, 1 + min_finish_steps(r.state, cfg)) ELSE U8MAX

child_bound_at_most ==
    IF query.child_outcome = "Ok" THEN query.child_result ELSE U8MAX

\* C5: for every non-final state s and every action legal in s that leads
\* to s', step_lower_bound(s) <= step_lower_bound(s') + 1, a final child
\* counting 0 when it has max progress and max quality and unbounded
\* otherwise; with and without the adversarial setting.
C5_StepBoundMonotone ==
    query.kind = "child" =>
        query.result <= Min(U8MAX, child_bound_at_most + 1)

\* a legal action to a non-final child whose bound is one less, under the
\* adversarial setting
C5_Witness ==
    /\ query.kind = "child"
    /\ settings.adversarial
    /\ query.legal
    /\ ~is_final(query.child, settings)
    /\ query.outcome = "Ok"
    /\ query.child_outcome = "Ok"
    /\ query.result = query.child_result + 1

(***************************************************************************)
(* The Pareto front builder on its own, as its tests drive it.             *)
(* The builder under test is the one of quality_upper_bound_solver, built  *)
(* by ParetoFrontBuilder::new(settings.max_progress, settings.max_quality).*)
(***************************************************************************)
\* coordinates of the points of test_merge_fuzz run over 1 .. MaxCoord
MaxCoord == 4

Coords == 1..MaxCoord

RECURSIVE sorted(_)
\* values.sort()
sorted(S) ==
    IF S = { } THEN << >> ELSE << SetMin(S) >> \o sorted(S \ { SetMin(S) })

RECURSIVE sorted_reverse(_)
\* values.sort_by_key(Reverse)
sorted_reverse(S) ==
    IF S = { } THEN << >>
    ELSE << SetMax(S) >> \o sorted_reverse(S \ { SetMax(S) })

\* values_first zipped with values_second
zip_values(firsts, seconds) ==
    [ i \in 1..Len(firsts) |-> ParetoValue(firsts[i], seconds[i]) ]

\* the fronts random_values can return: n distinct firsts in ascending order
\* against n distinct seconds in descending order, for every n
random_values ==
    { zip_values(sorted(F), sorted_reverse(S)) :
        <<F, S>> \in { fs \in (SUBSET Coords) \X (SUBSET Coords) :
                          Cardinality(fs[1]) = Cardinality(fs[2]) } }

\* the caps of the builders under test: below every point, among the points,
\* above every point
CapChoices == { 1, MaxCoord - 1, MaxCoord + 1 }

\* Settings whose builder is ParetoFrontBuilder::new(max_first, max_second)
builder_settings(max_first, max_second) ==
    [ max_cp |-> MaxCP, max_durability |-> 5 * MaxDurabilityUnits,
      max_progress |-> max_first, max_quality |-> max_second,
      base_progress |-> 10, base_quality |-> 10,
      allowed_actions |-> { "BasicSynthesis", "BasicTouch", "MasterMend" },
      adversarial |-> FALSE ]

\* the builder under test
builder == quality_upper_bound_solver.pareto_front_builder

BuilderBecomes(b) ==
    quality_upper_bound_solver' =
        [ quality_upper_bound_solver EXCEPT !.pareto_front_builder = b ]

\* test_merge_fuzz: a new builder and the two operands values_a, values_b
InitMerge ==
    /\ settings \in { builder_settings(max_first, max_second) :
                        max_first \in CapChoices, max_second \in CapChoices }
    /\ backload_progress = FALSE
    /\ pc = "new"
    /\ InitMacroVars
    /\ quality_upper_bound_solver = NewQualitySolver
    /\ step_lower_bound_solver = NewStepLowerBoundSolver
    /\ query \in { [ kind |-> "merge", values_a |-> a, values_b |-> b ] :
                     a \in random_values, b \in random_values }
    /\ sim_state = NewState(settings)

\* builder.push_slice(&values_a)
MergePushA ==
    /\ pc = "new"
    /\ BuilderBecomes(push_slice(builder, query.values_a))
    /\ pc' = "a"
    /\ UNCHANGED << settings, backload_progress, macro_vars,
                    step_lower_bound_solver, query, sim_state >>

\* builder.push_slice(&values_b)
MergePushB ==
    /\ pc = "a"
    /\ BuilderBecomes(push_slice(builder, query.values_b))
    /\ pc' = "b"
    /\ UNCHANGED << settings, backload_progress, macro_vars,
                    step_lower_bound_solver, query, sim_state >>

\* builder.merge()
MergeMerge ==
    /\ pc = "b"
    /\ BuilderBecomes(merge(builder, settings.max_progress, settings.max_quality))
    /\ pc' = "merged"
    /\ UNCHANGED << settings, backload_progress, macro_vars,
                    step_lower_bound_solver, query, sim_state >>

NextMerge == MergePushA \/ MergePushB \/ MergeMerge

SpecMerge == InitMerge /\ [][NextMerge]_vars

(***************************************************************************)
(* The builder under any sequence of its operations, on the fronts and the *)
(* caps of its unit tests.  query counts the operations, keeps every id    *)
(* save returned with the segment saved, and remembers whether a shift     *)
(* saturated a coordinate.                                                  *)
(***************************************************************************)
MaxBuilderOps == 5

SAMPLE_FRONT_1 ==
    << ParetoValue(100, 300), ParetoValue(200, 200), ParetoValue(300, 100) >>

SAMPLE_FRONT_2 ==
    << ParetoValue(50, 270), ParetoValue(150, 250), ParetoValue(250, 150),
       ParetoValue(300, 50) >>

\* the first operand of test_merge_truncate
TRUNCATE_FRONT_1 ==
    << ParetoValue(1100, 2300), ParetoValue(1200, 2200),
       ParetoValue(1300, 2100) >>

SampleFronts == { SAMPLE_FRONT_1, SAMPLE_FRONT_2, TRUNCATE_FRONT_1 }

\* (action_progress, action_quality) of a shift: within the caps, beyond
\* the caps, up to the end of u16
ShiftChoices == { << 50, 10 >>, << 1000, 2000 >>, << U16MAX - 150, 0 >> }

\* ParetoFrontBuilder::new(1000, 1000) and ParetoFrontBuilder::new(1000, 2000)
InitBuilder ==
    /\ settings \in { builder_settings(1000, 1000), builder_settings(1000, 2000) }
    /\ backload_progress = FALSE
    /\ pc = "builder"
    /\ InitMacroVars
    /\ quality_upper_bound_solver = NewQualitySolver
    /\ step_lower_bound_solver = NewStepLowerBoundSolver
    /\ query = [ kind |-> "builder", ops |-> 0, last |-> "new",
                 saved |-> << >>, saturated |-> FALSE ]
    /\ sim_state = NewState(settings)

\* the operation op took the builder to b
BuilderDid(op, b) ==
    /\ pc = "builder"
    /\ query.ops < MaxBuilderOps
    /\ BuilderBecomes(b)
    /\ UNCHANGED << settings, backload_progress, pc, macro_vars,
                    step_lower_bound_solver, sim_state >>

BuilderCounted(op) == [ query EXCEPT !.ops = @ + 1, !.last = op ]

BuilderClear ==
    /\ BuilderDid("clear", clear(builder))
    /\ query' = BuilderCounted("clear")

BuilderPushEmpty ==
    /\ BuilderDid("push_empty", push_empty(builder))
    /\ query' = BuilderCounted("push_empty")

BuilderPushSlice ==
    /\ \E values \in SampleFronts :
           BuilderDid("push_slice", push_slice(builder, values))
    /\ query' = BuilderCounted("push_slice")

\* push_id of an id that save returned
BuilderPushId ==
    /\ \E i \in 1..Len(query.saved) :
           BuilderDid("push_id", push_id(builder, query.saved[i].id))
    /\ query' = BuilderCounted("push_id")

\* some coordinate of the top segment is past u16 after the shift
shift_saturates(b, action_progress, action_quality) ==
    \E p \in { peek(b)[i] : i \in 1..Len(peek(b)) } :
        \/ p.first + action_progress > U16MAX
        \/ p.second + action_quality > U16MAX

\* map with the shift closure of the quality solver
BuilderMap ==
    /\ builder.segments # << >>
    /\ \E shift \in ShiftChoices :
           /\ BuilderDid("map", map_shift(builder, shift[1], shift[2]))
           /\ query' = [ BuilderCounted("map") EXCEPT !.saturated =
                           @ \/ shift_saturates(builder, shift[1], shift[2]) ]

BuilderMerge ==
    /\ Len(builder.segments) >= 2
    /\ BuilderDid("merge", merge(builder, settings.max_progress,
                                 settings.max_quality))
    /\ query' = BuilderCounted("merge")

\* save(), the id and the segment saved put on record
BuilderSave ==
    /\ builder.segments # << >>
    /\ BuilderDid("save", save(builder))
    /\ query' = [ BuilderCounted("save") EXCEPT !.saved =
                    Append(@, [ id |-> save_id(builder),
                                front |-> peek(builder) ]) ]

NextBuilder ==
    \/ BuilderClear
    \/ BuilderPushEmpty
    \/ BuilderPushSlice
    \/ BuilderPushId
    \/ BuilderMap
    \/ BuilderMerge
    \/ BuilderSave

SpecBuilder == InitBuilder /\ [][NextBuilder]_vars

(***************************************************************************)
(* Reference semantics of fronts                                            *)
(***************************************************************************)
\* q is at least as good as p in both coordinates
dominates(q, p) == q.first >= p.first /\ q.second >= p.second

points_of(front) == { front[i] : i \in 1..Len(front) }

RECURSIVE by_first(_)
\* the points of S in ascending order of first
by_first(S) ==
    IF S = { } THEN << >>
    ELSE LET m == CHOOSE p \in S : \A q \in S : p.first <= q.first
         IN  << m >> \o by_first(S \ { m })

\* the points of P that no other point of P dominates
non_dominated(P) ==
    { p \in P : ~\E q \in P \ { p } : dominates(q, p) }

pareto_union(front_a, front_b) ==
    by_first(non_dominated(points_of(front_a) \cup points_of(front_b)))

\* strictly increasing in first, strictly decreasing in second
is_valid_front(front) ==
    \A i \in 1..(Len(front) - 1) :
        /\ front[i].first < front[i + 1].first
        /\ front[i].second > front[i + 1].second

below_caps(front) ==
    \A p \in points_of(front) :
        p.first < settings.max_progress /\ p.second < settings.max_quality

beyond_caps(front) ==
    \A p \in points_of(front) :
        p.first >= settings.max_progress /\ p.second >= settings.max_quality

\* C12: for two valid fronts A and B below both caps, merge leaves exactly
\* the points of A and B that no other point of A or B dominates, equal
\* points once, in ascending order of first, in place of the two top
\* segments; merging with an empty segment yields the other operand.
C12_MergeIsParetoUnion ==
    ( /\ pc = "merged"
      /\ below_caps(query.values_a)
      /\ below_caps(query.values_b) ) =>
        /\ Len(builder.segments) = 1
        /\ peek(builder) = pareto_union(query.values_a, query.values_b)
        /\ query.values_a = << >> => peek(builder) = query.values_b
        /\ query.values_b = << >> => peek(builder) = query.values_a

\* two operands below the caps that share a point, each with a point the
\* other dominates and a point that stays
C12_Witness ==
    /\ pc = "merged"
    /\ below_caps(query.values_a)
    /\ below_caps(query.values_b)
    /\ points_of(query.values_a) \cap points_of(query.values_b) # { }
    /\ ~(points_of(query.values_a) \subseteq points_of(peek(builder)))
    /\ ~(points_of(query.values_b) \subseteq points_of(peek(builder)))
    /\ ~(points_of(peek(builder)) \subseteq points_of(query.values_a))
    /\ ~(points_of(peek(builder)) \subseteq points_of(query.values_b))

\* at most one point at or beyond max_second, the first one, and at most one
\* at or beyond max_first, the last one
truncated_at_caps(front) ==
    \A i \in 1..Len(front) :
        /\ front[i].second >= settings.max_quality => i = 1
        /\ front[i].first >= settings.max_progress => i = Len(front)

\* some point of the upper operand is not dominated by the lower operand
upper_contributes ==
    \E b \in points_of(query.values_b) :
        ~\E a \in points_of(query.values_a) : dominates(a, b)

\* what C13 says of the segment merge leaves
merge_result_truncated ==
    /\ truncated_at_caps(peek(builder))
    /\ ( /\ query.values_a # << >>
         /\ query.values_b # << >>
         /\ beyond_caps(query.values_a)
         /\ beyond_caps(query.values_b) ) => Len(peek(builder)) = 1

\* C13 as stated: after merge the resulting segment holds at most one point
\* with second >= max_second (its first point) and at most one point with
\* first >= max_first (its last point), and two fronts entirely beyond both
\* caps merge to a single point.
C13_TruncatedAfterEveryMerge == pc = "merged" => merge_result_truncated

\* C13, amended: the above holds after a merge to which the upper segment
\* contributes a point; when the lower segment dominates every point of the
\* upper one (an empty upper segment included) merge returns early and leaves
\* the lower segment as it was pushed, truncated or not.
C13_MergeTruncates ==
    pc = "merged" =>
        IF upper_contributes
        THEN merge_result_truncated
        ELSE peek(builder) = query.values_a

\* the operands of test_merge_truncate in small: both beyond both caps, both
\* of several points, merged to one point
C13_Witness ==
    /\ pc = "merged"
    /\ upper_contributes
    /\ Len(query.values_a) > 1
    /\ Len(query.values_b) > 1
    /\ beyond_caps(query.values_a)
    /\ beyond_caps(query.values_b)
    /\ Len(peek(builder)) = 1

\* C15: pushing the same valid front A twice and calling merge leaves
\* exactly A as the top segment.
C15_MergeIdempotent ==
    (pc = "merged" /\ query.values_a = query.values_b) =>
        /\ Len(builder.segments) = 1
        /\ peek(builder) = query.values_a

\* a front of several points, some of them beyond a cap, merged with itself
C15_Witness ==
    /\ pc = "merged"
    /\ query.values_a = query.values_b
    /\ Len(query.values_a) > 2
    /\ ~below_caps(query.values_a)
    /\ peek(builder) = query.values_a

\* the segments on the builder, bottom first
segments_of(b) ==
    [ i \in 1..Len(b.segments) |->
        Slice(b.buffer, b.segments[i],
              IF i < Len(b.segments) THEN b.segments[i + 1] ELSE Len(b.buffer)) ]

\* what check_invariants asserts, and the same of every saved front
fronts_are_valid ==
    /\ \A i \in 1..Len(builder.segments) :
           is_valid_front(segments_of(builder)[i])
    /\ \A i \in 1..Len(query.saved) :
           is_valid_front(retrieve(builder, query.saved[i].id))

C14_RetrieveYieldsSaved ==
    pc = "builder" =>
        \A i \in 1..Len(query.saved) :
            retrieve(builder, query.saved[i].id) = query.saved[i].front

\* two different fronts saved, and the builder cleared since
C14_Witness ==
    /\ pc = "builder"
    /\ Len(query.saved) = 2
    /\ query.saved[1].front # query.saved[2].front
    /\ query.saved[1].front # << >>
    /\ query.last = "clear"

(***************************************************************************)
(* Claims about the incumbent and the minimum score of the macro solver,   *)
(* checked under SpecMacro                                                  *)
(***************************************************************************)
\* the duration in the score of a solution: the time of all its actions but
\* the last, the duration of the node that was expanded
RECURSIVE duration_of(_)
duration_of(actions) ==
    IF actions = << >> THEN 0
    ELSE duration_of(SubSeq(actions, 1, Len(actions) - 1))
         + time_cost(actions[Len(actions)])

list_quality(actions) == replay(start_state, actions, settings).state.quality

\* the score do_solve gives a reported list
list_score(actions) ==
    SearchScore_new(list_quality(actions),
                    duration_of(SubSeq(actions, 1, Len(actions) - 1)),
                    Len(actions), settings)

\* the final children with enough progress of the node expanded last:
\* [score, quality] of each
last_candidates ==
    { [ score |-> SearchScore_new(
                      use_action(last_expansion.state, a, "Normal", settings).state.quality,
                      last_expansion.score.duration, last_expansion.steps + 1,
                      settings),
        quality |-> use_action(last_expansion.state, a, "Normal", settings).state.quality ]
      : a \in { x \in last_expansion.actions :
                  /\ use_action(last_expansion.state, x, "Normal", settings).ok
                  /\ is_final(use_action(last_expansion.state, x, "Normal",
                                         settings).state, settings)
                  /\ use_action(last_expansion.state, x, "Normal",
                                settings).state.progress >= settings.max_progress } }

\* (score, quality) of b against (score, quality) of a, as tuples: b is
\* strictly greater
strictly_greater(b_score, b_quality, a_score, a_quality) ==
    \/ b_score.quality > a_score.quality
    \/ /\ b_score.quality = a_score.quality
       /\ b_score.duration < a_score.duration
    \/ /\ b_score.quality = a_score.quality
       /\ b_score.duration = a_score.duration
       /\ b_score.steps < a_score.steps
    \/ b_score = a_score /\ b_quality > a_quality

\* C16: a final child with progress >= max_progress replaces the incumbent
\* iff there is no incumbent or its (score, quality) is strictly greater
\* than the incumbent's; hence the solutions passed to the solution callback
\* have strictly increasing scores and the list solve returns is the last
\* one reported.
C16_IncumbentStrictlyImproves ==
    /\ \A i \in 1..(Len(solution_callback) - 1) :
           strictly_greater(list_score(solution_callback[i + 1]),
                            list_quality(solution_callback[i + 1]),
                            list_score(solution_callback[i]),
                            list_quality(solution_callback[i]))
    /\ solution.some <=> solution_callback # << >>
    /\ solution.some =>
           /\ solution.actions = solution_callback[Len(solution_callback)]
           /\ solution.score = list_score(solution.actions)
           /\ solution.quality = list_quality(solution.actions)
    /\ last_expansion.some =>
           \A c \in last_candidates :
               /\ solution.some
               /\ ~strictly_greater(c.score, c.quality,
                                    solution.score, solution.quality)
    /\ pc = "done" =>
           returned = IF solution_callback # << >>
                      THEN [ some |-> TRUE,
                             actions |-> solution_callback[Len(solution_callback)] ]
                      ELSE NoSolution

\* two lists reported, and the last expansion met a candidate that did not
\* beat the incumbent
C16_Witness ==
    /\ last_expansion.some
    /\ Len(solution_callback) >= 2
    /\ \E c \in last_candidates :
           strictly_greater(solution.score, solution.quality, c.score, c.quality)

\* the scores by which the last expansion may have raised the minimum: the
\* current quality of each non-final child that can finish and the score of
\* each final child with enough progress
last_raises ==
    { SearchScore_new(use_action(last_expansion.state, a, "Normal",
                                 settings).state.quality,
                      U8MAX, U8MAX, settings)
      : a \in { x \in last_expansion.actions :
                  /\ use_action(last_expansion.state, x, "Normal", settings).ok
                  /\ ~is_final(use_action(last_expansion.state, x, "Normal",
                                          settings).state, settings)
                  /\ can_finish(use_action(last_expansion.state, x, "Normal",
                                           settings).state, settings) } }
    \cup { c.score : c \in last_candidates }

\* C17: during one solve the minimum acceptable score of the search queue
\* never decreases: it is only raised, by the score of each terminal
\* solution found and by the current quality of each non-final child that
\* can still finish.
C17_MinimumScoreOnlyRaised ==
    last_expansion.some =>
        /\ ~score_lt(search_queue.minimum_score, last_expansion.minimum_score)
        /\ search_queue.minimum_score
               \in { last_expansion.minimum_score } \cup last_raises
        /\ \A score \in last_raises :
               ~score_lt(search_queue.minimum_score, score)

\* the last expansion raised the minimum to the score of the solution it
\* found, and met a lower score after it
C17_Witness ==
    /\ last_expansion.some
    /\ score_lt(last_expansion.minimum_score, search_queue.minimum_score)
    /\ solution.some
    /\ search_queue.minimum_score = solution.score
    /\ \E score \in last_raises : score_lt(score, search_queue.minimum_score)

(***************************************************************************)
(* The simulator on its own: use_action applied, under any condition, to   *)
(* the states of a craft.  query holds the last call: the state it was     *)
(* made in, the action, the condition and whether it was accepted.         *)
(***************************************************************************)
MaxSimSteps == 3

SimConditions == { "Normal", "Good", "Sturdy", "Pliant" }

SimActions ==
    { "BasicSynthesis", "BasicTouch", "Observe", "MasterMend", "Manipulation",
      "TrainedPerfection", "TricksOfTheTrade", "WasteNot", "PrudentTouch",
      "Groundwork" }

\* the actions a caller tries: the allowed ones and one that is not
SimTried == SimActions \cup { "ByregotsBlessing" }

\* recipes of a tenth of the usual scale with the CP of a crafter, and one
\* whose progress and quality per action are a large part of the u16 range
SimSettingsChoices ==
    { [ max_cp |-> 200, max_durability |-> IF adversarial THEN 40 ELSE 20,
        max_progress |-> MaxProgress, max_quality |-> MaxQuality - 10,
        base_progress |-> 10, base_quality |-> 10,
        allowed_actions |-> SimActions, adversarial |-> adversarial ]
      : adversarial \in BOOLEAN }
    \cup
    { [ max_cp |-> 200, max_durability |-> 40,
        max_progress |-> 60000, max_quality |-> 60000,
        base_progress |-> 20000, base_quality |-> 30000,
        allowed_actions |-> SimActions, adversarial |-> FALSE ] }

NoCall == [ some |-> FALSE ]

InitSim ==
    /\ settings \in SimSettingsChoices
    /\ backload_progress = FALSE
    /\ pc = "sim"
    /\ InitMacroVars
    /\ quality_upper_bound_solver = NewQualitySolver
    /\ step_lower_bound_solver = NewStepLowerBoundSolver
    /\ query = [ kind |-> "sim", steps |-> 0, last |-> NoCall ]
    /\ sim_state = NewState(settings)

\* the record of a call of use_action in sim_state
SimCall(action, condition, r) ==
    [ some |-> TRUE, ok |-> r.ok, before |-> sim_state, action |-> action,
      condition |-> condition ]

\* use_action returned Ok(state): the craft goes on from that state
SimUse ==
    /\ pc = "sim"
    /\ query.steps < MaxSimSteps
    /\ \E action \in SimTried, condition \in SimConditions :
           LET r == use_action(sim_state, action, condition, settings)
           IN  /\ r.ok
               /\ sim_state' = r.state
               /\ query' = [ kind |-> "sim", steps |-> query.steps + 1,
                             last |-> SimCall(action, condition, r) ]
    /\ UNCHANGED << settings, backload_progress, pc, macro_vars,
                    quality_upper_bound_solver, step_lower_bound_solver >>

\* use_action returned Err(reason): the state is the caller's to keep
SimRejected ==
    /\ pc = "sim"
    /\ query.steps < MaxSimSteps
    /\ \E action \in SimTried, condition \in SimConditions :
           LET r == use_action(sim_state, action, condition, settings)
           IN  /\ ~r.ok
               /\ query' = [ kind |-> "sim", steps |-> query.steps + 1,
                             last |-> SimCall(action, condition, r) ]
    /\ UNCHANGED << settings, backload_progress, pc, macro_vars, sim_state,
                    quality_upper_bound_solver, step_lower_bound_solver >>

NextSim == SimUse \/ SimRejected

SpecSim == InitSim /\ [][NextSim]_vars

\* the last call of use_action returned Ok(sim_state)
last_accepted == pc = "sim" /\ query.last.some /\ query.last.ok

last_durability_cost ==
    durability_cost(query.last.action, query.last.before.effects,
                    query.last.condition)

\* C20: with trained_perfection Active, an accepted action with a nonzero
\* durability cost consumes no durability and sets trained_perfection to
\* Unavailable, while an accepted action with zero durability cost leaves
\* trained_perfection Active.
C20_TrainedPerfectionAbsorbs ==
    (last_accepted /\ query.last.before.effects.trained_perfection = "Active") =>
        IF last_durability_cost # 0
        THEN /\ sim_state.effects.trained_perfection = "Unavailable"
             /\ sim_state.durability
                    \in { query.last.before.durability,
                          Min(settings.max_durability,
                              query.last.before.durability + 5) }
        ELSE sim_state.effects.trained_perfection = "Active"

\* Waste Not at 4 in a state with trained_perfection Active: Waste Not, of
\* durability cost zero, was used the step before with the effect Active and
\* left it so; the action after it had a cost, which was absorbed
C20_Witness ==
    /\ last_accepted
    /\ query.last.before.effects.trained_perfection = "Active"
    /\ query.last.before.effects.waste_not = 4
    /\ last_durability_cost # 0
    /\ sim_state.effects.trained_perfection = "Unavailable"
    /\ sim_state.durability = query.last.before.durability

(***************************************************************************)
(* The shift of a child front in both DPs.  For the state under            *)
(* sim_state, one iteration of the loop of solve_state is run up to its    *)
(* map: the child of an action is solved by the DP itself and its front,   *)
(* left on top of the builder, is shifted by the progress and quality of   *)
(* the action.  query holds the front, the shift, the front that comes    *)
(* out and the outcome.  The step DP adds with +=, which panics on         *)
(* overflow in a build with overflow checks ("debug") and wraps in one     *)
(* without ("release").                                                     *)
(***************************************************************************)
MaxShiftPlays == 2

MaxShiftBudget == 3

Builds == { "debug", "release" }

\* a recipe of a tenth of the usual scale, and recipes whose progress and
\* quality per action are a large part of the u16 range
ShiftSettingsChoices ==
    { [ max_cp |-> MaxCP - 30, max_durability |-> 5 * MaxDurabilityUnits,
        max_progress |-> MaxProgress, max_quality |-> MaxQuality - 10,
        base_progress |-> 10, base_quality |-> 10,
        allowed_actions |-> { "BasicSynthesis", "BasicTouch", "MasterMend" },
        adversarial |-> FALSE ] }
    \cup
    { [ max_cp |-> MaxCP - 30, max_durability |-> 5 * MaxDurabilityUnits,
        max_progress |-> max_progress, max_quality |-> 60000,
        base_progress |-> 20000, base_quality |-> 20000,
        allowed_actions |-> { "BasicSynthesis", "BasicTouch", "MasterMend" },
        adversarial |-> FALSE ]
      : max_progress \in { 60000, U16MAX } }

InitShift ==
    /\ settings \in ShiftSettingsChoices
    /\ backload_progress = FALSE
    /\ pc = "shift"
    /\ InitMacroVars
    /\ quality_upper_bound_solver = NewQualitySolver
    /\ step_lower_bound_solver = NewStepLowerBoundSolver
    /\ query = [ kind |-> "none", plays |-> 0 ]
    /\ sim_state = NewState(settings)

\* the caller moves on to a child state
ShiftPlay ==
    /\ pc = "shift"
    /\ query.plays < MaxShiftPlays
    /\ \E a \in settings.allowed_actions :
           /\ use_action(sim_state, a, "Normal", settings).ok
           /\ sim_state' = use_action(sim_state, a, "Normal", settings).state
    /\ query' = [ kind |-> "none", plays |-> query.plays + 1 ]
    /\ UNCHANGED << settings, backload_progress, pc, macro_vars,
                    quality_upper_bound_solver, step_lower_bound_solver >>

\* a coordinate of the front leaves the u16 range when the shift is added
shift_overflows(front, action_progress, action_quality) ==
    \E i \in 1..Len(front) :
        \/ front[i].first + action_progress > U16MAX
        \/ front[i].second + action_quality > U16MAX

\* the record of a shift of the top segment of builder b
ShiftRecord(solver, b, shifted_builder, action_progress, action_quality, panics) ==
    [ kind |-> "shift", plays |-> query.plays, solver |-> solver,
      front |-> peek(b),
      action_progress |-> action_progress,
      action_quality |-> action_quality,
      outcome |-> IF panics THEN "Panic" ELSE "Ok",
      shifted |-> IF panics THEN << >> ELSE peek(shifted_builder) ]

\* StepLowerBoundSolverImpl::solve_state for the reduced state of sim_state
\* with a budget, at one action of its loop: the child is solved, then
\* pareto_front_builder.map adds the action to its front
ShiftStepOf(kind, steps_budget, action, build) ==
    LET cfg == StepLowerBoundSolverImpl_settings(kind, settings)
        reduced_state == step_from_state(kind, sim_state, steps_budget)
        r == use_action(step_to_state(reduced_state), action, "Normal", cfg)
        new_reduced_state == step_from_state(kind, r.state, steps_budget - 1)
        T == run_step_solve_state(
                 [ NewStepSolverImpl EXCEPT
                     !.pareto_front_builder = push_empty(@) ],
                 new_reduced_state, kind, cfg)
    IN  /\ r.ok
        /\ new_reduced_state.steps_budget # 0
        /\ ~is_final(r.state, cfg)
        /\ query' = ShiftRecord(
               "step", T.pareto_front_builder,
               map_add(T.pareto_front_builder, r.state.progress, r.state.quality),
               r.state.progress, r.state.quality,
               build = "debug"
                   /\ shift_overflows(peek(T.pareto_front_builder),
                                      r.state.progress, r.state.quality))

ShiftStep ==
    /\ pc = "shift"
    /\ \E kind \in { "fast", "slow" }, steps_budget \in 2..MaxShiftBudget,
          action \in settings.allowed_actions, build \in Builds :
           ShiftStepOf(kind, steps_budget, action, build)
    /\ UNCHANGED << settings, backload_progress, pc, macro_vars, sim_state,
                    quality_upper_bound_solver, step_lower_bound_solver >>

\* QualityUpperBoundSolver::build_child_front for the reduced state of
\* sim_state and one of its search actions: the child is solved, then
\* pareto_front_builder.map adds the action to its front
ShiftQualityOf(action) ==
    LET cfg == solver_cfg
        state == from_simulation_state(sim_state, cfg)
        r == reduced_use_action(state, action, cfg)
        Q == run_solve_state(
                 [ NewQualitySolver EXCEPT
                     !.pareto_front_builder = push_empty(@) ],
                 r.state, cfg)
    IN  /\ r.ok
        /\ r.state.cp >= cfg.durability_cost
        /\ query' = ShiftRecord(
               "quality", Q.pareto_front_builder,
               map_shift(Q.pareto_front_builder, r.progress, r.quality),
               r.progress, r.quality, FALSE)

ShiftQuality ==
    /\ pc = "shift"
    /\ \E i \in 1..Len(search_actions_of(from_simulation_state(sim_state,
                                                                solver_cfg))) :
           ShiftQualityOf(search_actions_of(
                              from_simulation_state(sim_state, solver_cfg))[i])
    /\ UNCHANGED << settings, backload_progress, pc, macro_vars, sim_state,
                    quality_upper_bound_solver, step_lower_bound_solver >>

NextShift == ShiftPlay \/ ShiftStep \/ ShiftQuality

SpecShift == InitShift /\ [][NextShift]_vars

(***************************************************************************)
(* Claims about the shift, checked under SpecShift                          *)
(***************************************************************************)
\* the front that a saturating shift of the recorded front gives
saturated_shift ==
    [ i \in 1..Len(query.front) |->
        ParetoValue(Min(U16MAX, query.front[i].first + query.action_progress),
                    Min(U16MAX, query.front[i].second + query.action_quality)) ]

\* C18: the shift of a child front by (action_progress, action_quality), in
\* the quality upper bound DP and in the step lower bound DP, is a
\* saturating u16 addition: no coordinate wraps around and the addition
\* does not abort.
C18_ShiftsSaturate ==
    query.kind = "shift" =>
        /\ query.outcome = "Ok"
        /\ query.shifted = saturated_shift

\* the half of C18 about the quality upper bound DP
C18_QualityShiftSaturates ==
    (query.kind = "shift" /\ query.solver = "quality") =>
        /\ query.outcome = "Ok"
        /\ query.shifted = saturated_shift

\* a shift of the quality upper bound DP that saturated
C18_QualityShiftSaturated ==
    /\ query.kind = "shift"
    /\ query.solver = "quality"
    /\ shift_overflows(query.front, query.action_progress, query.action_quality)

\* the step DP never aborts in its shift
C18_StepShiftNeverPanics ==
    (query.kind = "shift" /\ query.solver = "step") => query.outcome = "Ok"

\* the step DP never wraps a coordinate around
C18_StepShiftNeverWraps ==
    (query.kind = "shift" /\ query.solver = "step" /\ query.outcome = "Ok") =>
        query.shifted = saturated_shift

(***************************************************************************)
(* The effect tests: a new state with some effects set by hand, and one    *)
(* call of use_action in it.                                                *)
(***************************************************************************)
MaxActiveEffects == 3

\* the duration an effect is given in the tests
TestTicks == 3

\* the Inner Quiet stacks of test_inner_quiet
TestInnerQuiet == 4

\* the durability test_manipulation starts from
TestDurability == 30

\* SETTINGS of the effect tests, the base progress and quality at 100
EffectTestSettings ==
    [ max_cp |-> 200, max_durability |-> 60, max_progress |-> 2000,
      max_quality |-> 40000, base_progress |-> 100, base_quality |-> 100,
      allowed_actions |-> Action, adversarial |-> FALSE ]

EffectActions ==
    { "BasicSynthesis", "CarefulSynthesis", "Groundwork", "PrudentSynthesis",
      "BasicTouch", "PrudentTouch", "ByregotsBlessing", "Observe",
      "MasterMend", "Manipulation", "WasteNot", "Veneration", "Innovation",
      "GreatStrides" }

EffectConditions ==
    { "Normal", "Good", "Excellent", "Poor", "Sturdy", "Malleable", "Pliant" }

\* the timed effects of a state
TimedEffects ==
    { "veneration", "innovation", "waste_not", "manipulation",
      "great_strides", "muscle_memory" }

active_effects(effects) ==
    Cardinality({ e \in TimedEffects : effects[e] > 0 })
    + (IF effects.inner_quiet > 0 THEN 1 ELSE 0)

\* the effects a test sets on a new state
TestEffects ==
    { e \in [ veneration : { 0, TestTicks }, innovation : { 0, TestTicks },
              waste_not : { 0, TestTicks }, manipulation : { 0, 1, TestTicks },
              great_strides : { 0, TestTicks }, muscle_memory : { 0, TestTicks },
              inner_quiet : { 0, TestInnerQuiet }, guard : { 0 },
              heart_and_soul : { "Unused" },
              quick_innovation_available : { TRUE },
              trained_perfection : { "Available", "Active" } ] :
        active_effects(e) <= MaxActiveEffects }

\* InProgress::new(&SETTINGS) with its effects and durability set
TestStates ==
    { [ NewState(EffectTestSettings) EXCEPT !.effects = e, !.durability = d ] :
        e \in TestEffects,
        d \in { 5, TestDurability, EffectTestSettings.max_durability } }

InitEffects ==
    /\ settings = EffectTestSettings
    /\ backload_progress = FALSE
    /\ pc = "effects"
    /\ InitMacroVars
    /\ quality_upper_bound_solver = NewQualitySolver
    /\ step_lower_bound_solver = NewStepLowerBoundSolver
    /\ query = [ kind |-> "effects", last |-> NoCall ]
    /\ sim_state \in TestStates

\* the record of the call of use_action in sim_state, with what the action
\* costs and yields there
EffectCall(action, condition, r) ==
    [ some |-> TRUE, ok |-> r.ok, before |-> sim_state, action |-> action,
      condition |-> condition,
      err |-> IF r.ok THEN "" ELSE r.err,
      cost |-> durability_cost(action, sim_state.effects, condition),
      progress |-> progress_increase(action, sim_state.effects, condition,
                                     settings),
      quality |-> quality_increase(action, sim_state.effects, condition,
                                   settings) ]

\* State::InProgress(state): the test goes on to its assertions
EffectUse ==
    /\ pc = "effects"
    /\ ~query.last.some
    /\ \E action \in EffectActions, condition \in EffectConditions :
           LET r == use_action(sim_state, action, condition, settings)
           IN  /\ r.ok
               /\ sim_state' = r.state
               /\ query' = [ query EXCEPT
                               !.last = EffectCall(action, condition, r) ]
    /\ UNCHANGED << settings, backload_progress, pc, macro_vars,
                    quality_upper_bound_solver, step_lower_bound_solver >>

\* State::Invalid: the state is left as it was
EffectRejected ==
    /\ pc = "effects"
    /\ ~query.last.some
    /\ \E action \in EffectActions, condition \in EffectConditions :
           LET r == use_action(sim_state, action, condition, settings)
           IN  /\ ~r.ok
               /\ query' = [ query EXCEPT
                               !.last = EffectCall(action, condition, r) ]
    /\ UNCHANGED << settings, backload_progress, pc, macro_vars, sim_state,
                    quality_upper_bound_solver, step_lower_bound_solver >>

NextEffects == EffectUse \/ EffectRejected

SpecEffects == InitEffects /\ [][NextEffects]_vars

\* the call of the test was accepted
effect_used == pc = "effects" /\ query.last.some /\ query.last.ok

\* the call of the test was rejected
effect_rejected == pc = "effects" /\ query.last.some /\ ~query.last.ok

(***************************************************************************)
(* Progress of an action under Muscle Memory and Veneration                 *)
(***************************************************************************)
\* Groundwork used with less durability left than it costs
groundwork_short(c) ==
    c.action = "Groundwork" /\ c.before.durability < c.cost

\* C21: the progress an action yields is B + [muscle_memory > 0] * B
\* + [veneration > 0] * B / 2, B being its base progress (times 3/2 under
\* Malleable): the bonuses add, so CarefulSynthesis (180) gives 360 with
\* Muscle Memory, 270 with Veneration and 450 with both, and that is what an
\* accepted action adds to the progress of the state.
C21_ProgressBonusesAdd ==
    (pc = "effects" /\ query.last.some) =>
        LET c == query.last
            base == base_progress_increase(c.action)
            B == IF c.condition = "Malleable" THEN (base * 3) \div 2 ELSE base
            mm == c.before.effects.muscle_memory > 0
            ven == c.before.effects.veneration > 0
        IN  /\ c.progress = B + (IF mm THEN B ELSE 0)
                              + (IF ven THEN B \div 2 ELSE 0)
            /\ (c.action = "CarefulSynthesis" /\ c.condition = "Normal") =>
                   c.progress = (CASE mm /\ ven -> 450
                                   [] mm /\ ~ven -> 360
                                   [] ~mm /\ ven -> 270
                                   [] OTHER -> 180)
            /\ (c.ok /\ ~groundwork_short(c)) =>
                   sim_state.progress = c.before.progress + c.progress

\* CarefulSynthesis under Muscle Memory and Veneration made 450 progress
C21_Witness ==
    /\ effect_used
    /\ query.last.action = "CarefulSynthesis"
    /\ query.last.condition = "Normal"
    /\ query.last.before.effects.muscle_memory = TestTicks
    /\ query.last.before.effects.veneration = TestTicks
    /\ sim_state.progress = 450
    /\ sim_state.effects.muscle_memory = 0
    /\ sim_state.effects.veneration = TestTicks - 1

(***************************************************************************)
(* Quality of an action under Innovation, Great Strides and Inner Quiet     *)
(***************************************************************************)
\* C22: the quality an action yields is Q + [innovation > 0] * Q / 2
\* + [great_strides > 0] * Q, Q being its base quality times the factor of
\* the condition (Good 3/2, Excellent 4, Poor 1/2) times
\* (10 + inner_quiet) / 10, Byregot's Blessing first scaling its base by
\* (10 + 2 * inner_quiet) / 10: BasicTouch gives 250 with Great Strides and
\* Innovation, and 210 with Innovation at 4 stacks of Inner Quiet.
C22_QualityBonusesAdd ==
    (pc = "effects" /\ query.last.some) =>
        LET c == query.last
            iq == c.before.effects.inner_quiet
            base == base_quality_increase(c.action)
            byregot == IF c.action = "ByregotsBlessing"
                       THEN (base * (10 + 2 * iq)) \div 10
                       ELSE base
            conditioned ==
                CASE c.condition = "Good" -> (byregot * 3) \div 2
                  [] c.condition = "Excellent" -> byregot * 4
                  [] c.condition = "Poor" -> byregot \div 2
                  [] OTHER -> byregot
            Q == (conditioned * (10 + iq)) \div 10
            inn == c.before.effects.innovation > 0
            gs == c.before.effects.great_strides > 0
        IN  /\ c.quality = Q + (IF inn THEN Q \div 2 ELSE 0)
                             + (IF gs THEN Q ELSE 0)
            /\ (c.action = "BasicTouch" /\ c.condition = "Normal" /\ iq = 0) =>
                   c.quality = (CASE gs /\ inn -> 250
                                  [] gs /\ ~inn -> 200
                                  [] ~gs /\ inn -> 150
                                  [] OTHER -> 100)
            /\ (c.action = "BasicTouch" /\ c.condition = "Normal"
                  /\ iq = TestInnerQuiet /\ ~gs) =>
                   c.quality = (IF inn THEN 210 ELSE 140)
            /\ c.ok => sim_state.quality = c.before.quality + c.quality

\* BasicTouch under Great Strides and Innovation made 250 quality
C22_Witness ==
    /\ effect_used
    /\ query.last.action = "BasicTouch"
    /\ query.last.condition = "Normal"
    /\ query.last.before.effects.great_strides = TestTicks
    /\ query.last.before.effects.innovation = TestTicks
    /\ sim_state.quality = 250
    /\ sim_state.effects.great_strides = 0
    /\ sim_state.effects.innovation = TestTicks - 1

\* BasicTouch under Innovation at 4 stacks of Inner Quiet made 210 quality
C22_WitnessInnerQuiet ==
    /\ effect_used
    /\ query.last.action = "BasicTouch"
    /\ query.last.before.effects.inner_quiet = TestInnerQuiet
    /\ query.last.before.effects.innovation = TestTicks
    /\ sim_state.quality = 210
    /\ sim_state.effects.inner_quiet = TestInnerQuiet + 1

(***************************************************************************)
(* The timed effects at the end of a step                                   *)
(***************************************************************************)
\* the effect an action starts, "" when it starts none
effect_started(action) ==
    CASE action \in { "WasteNot", "WasteNot2" } -> "waste_not"
      [] action = "Veneration" -> "veneration"
      [] action = "Innovation" -> "innovation"
      [] action = "GreatStrides" -> "great_strides"
      [] action = "Manipulation" -> "manipulation"
      [] action = "MuscleMemory" -> "muscle_memory"
      [] OTHER -> ""

\* what a timed effect that was active is after an action that does not
\* start it
ticked_or_spent(c, e) ==
    IF \/ e = "muscle_memory" /\ c.progress > 0
       \/ e = "great_strides" /\ c.quality > 0
    THEN 0
    ELSE c.before.effects[e] - 1

\* C23 as stated: after a successful action every timed effect that was
\* active is one less and none is below 0, except that muscle_memory is 0
\* after an action that makes progress and great_strides is 0 after an
\* action that makes quality.
C23_ActiveEffectsTickByOne ==
    effect_used =>
        \A e \in TimedEffects :
            /\ sim_state.effects[e] >= 0
            /\ query.last.before.effects[e] > 0 =>
                   sim_state.effects[e] = ticked_or_spent(query.last, e)

\* C23: after a successful action every timed effect that was active is
\* one less and none is below 0, except that muscle_memory is 0 after an
\* action that makes progress, great_strides is 0 after an action that makes
\* quality, and the effect the action itself starts is at its full duration
\* (8 for Manipulation); an effect that was not active stays at 0 unless the
\* action starts it.
C23_ActiveEffectsTickUnlessStarted ==
    effect_used =>
        \A e \in TimedEffects :
            /\ sim_state.effects[e] >= 0
            /\ (query.last.before.effects[e] > 0
                  /\ effect_started(query.last.action) # e) =>
                   sim_state.effects[e] = ticked_or_spent(query.last, e)
            /\ (query.last.before.effects[e] = 0
                  /\ effect_started(query.last.action) # e) =>
                   sim_state.effects[e] = 0
            /\ effect_started(query.last.action) = e =>
                   /\ sim_state.effects[e] >= TestTicks
                   /\ sim_state.effects[e]
                        = effects_after_action(NoEffects, query.last.action)[e]
                   /\ e = "manipulation" => sim_state.effects[e] = 8

\* a touch under Great Strides, Innovation and Muscle Memory: the first is
\* spent, the others tick down by one
C23_Witness ==
    /\ effect_used
    /\ query.last.action = "BasicTouch"
    /\ query.last.before.effects.great_strides = TestTicks
    /\ query.last.before.effects.innovation = TestTicks
    /\ query.last.before.effects.muscle_memory = TestTicks
    /\ sim_state.effects.great_strides = 0
    /\ sim_state.effects.innovation = TestTicks - 1
    /\ sim_state.effects.muscle_memory = TestTicks - 1

\* Manipulation used with 3 steps of it left leaves 8
C23_WitnessRestarted ==
    /\ effect_used
    /\ query.last.action = "Manipulation"
    /\ query.last.before.effects.manipulation = TestTicks
    /\ sim_state.effects.manipulation = 8

(***************************************************************************)
(* Durability at the end of a step                                          *)
(***************************************************************************)
\* the durability once the action has charged its cost and restored what it
\* restores itself
durability_after_action(c) ==
    LET absorbed == c.cost > 0 /\ c.before.effects.trained_perfection = "Active"
        charged == IF absorbed THEN c.before.durability
                   ELSE c.before.durability - c.cost
    IN  IF c.action = "MasterMend"
        THEN Min(settings.max_durability, charged + 30)
        ELSE charged

\* the manipulation counter of the state before, ticked down
manipulation_ticked(c) ==
    IF c.before.effects.manipulation > 0
    THEN c.before.effects.manipulation - 1
    ELSE 0

\* C24 as stated: after any successful action the timed effects are ticked
\* down first and then, if the manipulation counter is still above 0 and
\* the durability is above 0, the durability goes up by 5, capped at
\* max_durability.
C24_ManipulationRestoresAfterAnyAction ==
    effect_used =>
        sim_state.durability =
            IF manipulation_ticked(query.last) > 0
                 /\ durability_after_action(query.last) > 0
            THEN Min(settings.max_durability,
                     durability_after_action(query.last) + 5)
            ELSE durability_after_action(query.last)

\* C24: after any successful action other than Manipulation the timed
\* effects are ticked down first and then, if the manipulation counter is
\* still above 0 and the durability is above 0, the durability goes up by
\* 5, capped at max_durability; the Manipulation action restores nothing on
\* its own step.
C24_ManipulationRestoresAfterOtherActions ==
    effect_used =>
        sim_state.durability =
            IF query.last.action # "Manipulation"
                 /\ manipulation_ticked(query.last) > 0
                 /\ durability_after_action(query.last) > 0
            THEN Min(settings.max_durability,
                     durability_after_action(query.last) + 5)
            ELSE durability_after_action(query.last)

\* Observe with 3 steps of Manipulation left: durability 30 becomes 35
C24_Witness ==
    /\ effect_used
    /\ query.last.action = "Observe"
    /\ query.last.before.effects.manipulation = TestTicks
    /\ query.last.before.durability = TestDurability
    /\ sim_state.durability = TestDurability + 5
    /\ sim_state.effects.manipulation = TestTicks - 1

\* the last step of Manipulation: the counter is 0 after the tick and
\* nothing is restored
C24_WitnessLastStep ==
    /\ effect_used
    /\ query.last.action = "Observe"
    /\ query.last.before.effects.manipulation = 1
    /\ query.last.before.durability = TestDurability
    /\ sim_state.durability = TestDurability

C25_WitnessMasterMend ==
    /\ effect_used
    /\ query.last.action = "MasterMend"
    /\ query.last.before.effects.manipulation = TestTicks
    /\ query.last.before.durability = TestDurability
    /\ sim_state.durability = settings.max_durability
    /\ sim_state.effects.manipulation = TestTicks - 1

\* Master's Mend with 3 steps of Manipulation left and durability 5: 40,
\* below the cap
C25_WitnessBelowCap ==
    /\ effect_used
    /\ query.last.action = "MasterMend"
    /\ query.last.before.effects.manipulation = TestTicks
    /\ query.last.before.durability = 5
    /\ sim_state.durability = 40

(***************************************************************************)
(* Durability cost under Sturdy and Waste Not                               *)
(***************************************************************************)
\* n / 2 rounded up
half_up(n) == (n + 1) \div 2

\* C26: the durability cost of an action is ceil(c / 2) when waste_not > 0
\* and c otherwise, c being ceil(base / 2) under Sturdy and the base cost
\* otherwise: BasicTouch costs 10, 5 under Sturdy or Waste Not and 3 under
\* both; the cost is what an accepted action takes from the durability
\* when neither Trained Perfection, Manipulation nor Master's Mend is at
\* work.
C26_DurabilityCost ==
    (pc = "effects" /\ query.last.some) =>
        LET c == query.last
            base == base_durability_cost(c.action)
            sturdy == c.condition = "Sturdy"
            wn == c.before.effects.waste_not > 0
            conditioned == IF sturdy THEN half_up(base) ELSE base
        IN  /\ c.cost = IF wn THEN half_up(conditioned) ELSE conditioned
            /\ c.action = "BasicTouch" =>
                   c.cost = (CASE sturdy /\ wn -> 3
                               [] sturdy /\ ~wn -> 5
                               [] ~sturdy /\ wn -> 5
                               [] OTHER -> 10)
            /\ (c.action = "PrudentSynthesis" /\ ~wn) =>
                   c.cost = (IF sturdy THEN 3 ELSE 5)
            /\ (c.ok /\ c.before.effects.trained_perfection # "Active"
                  /\ c.before.effects.manipulation <= 1
                  /\ c.action # "MasterMend") =>
                   sim_state.durability = c.before.durability - c.cost

\* BasicTouch under Sturdy and Waste Not took 3 from the durability
C26_Witness ==
    /\ effect_used
    /\ query.last.action = "BasicTouch"
    /\ query.last.condition = "Sturdy"
    /\ query.last.before.effects.waste_not = TestTicks
    /\ query.last.before.effects.manipulation = 0
    /\ query.last.before.effects.trained_perfection = "Available"
    /\ query.last.cost = 3
    /\ sim_state.durability = query.last.before.durability - 3

\* CarefulSynthesis under Waste Not: durability 60 becomes 55
C26_WitnessWasteNot ==
    /\ effect_used
    /\ query.last.action = "CarefulSynthesis"
    /\ query.last.condition = "Normal"
    /\ query.last.before.effects.waste_not = TestTicks
    /\ query.last.before.durability = settings.max_durability
    /\ sim_state.durability = 55
    /\ sim_state.effects.waste_not = TestTicks - 1

(***************************************************************************)
(* The Prudent actions under Waste Not                                      *)
(***************************************************************************)
\* C27: PrudentTouch and PrudentSynthesis are rejected whenever
\* waste_not > 0, however much CP and durability there is, and the state is
\* left as it was.
C27_PrudentRejectedUnderWasteNot ==
    (/\ pc = "effects"
     /\ query.last.some
     /\ query.last.action \in { "PrudentTouch", "PrudentSynthesis" }
     /\ query.last.before.effects.waste_not > 0) =>
        /\ ~query.last.ok
        /\ sim_state = query.last.before

\* PrudentTouch rejected under Waste Not with all the CP and durability of
\* the recipe
C27_Witness ==
    /\ effect_rejected
    /\ query.last.action = "PrudentTouch"
    /\ query.last.condition = "Normal"
    /\ query.last.before.effects.waste_not = TestTicks
    /\ query.last.before.cp = settings.max_cp
    /\ query.last.before.durability = settings.max_durability
    /\ query.last.err = "action_disabled"

\* PrudentSynthesis accepted once Waste Not is over
C27_WitnessAccepted ==
    /\ effect_used
    /\ query.last.action = "PrudentSynthesis"
    /\ query.last.before.effects.waste_not = 0

(***************************************************************************)
(* An action that costs more durability than there is left                  *)
(***************************************************************************)
\* the call is of an action of cost 10 (Sturdy applied, Waste Not not yet)
\* in a state with durability 5
cost_10_at_durability_5(c) ==
    /\ c.before.durability = 5
    /\ (IF c.condition = "Sturdy"
        THEN half_up(base_durability_cost(c.action))
        ELSE base_durability_cost(c.action)) = 10

covered_by_effect(c) ==
    \/ c.before.effects.waste_not > 0
    \/ c.before.effects.trained_perfection = "Active"

\* C28 as stated: with durability 5, an action whose durability cost is 10
\* is legal only if Waste Not is active or trained_perfection is Active.
C28_LegalOnlyIfCovered ==
    (effect_used /\ cost_10_at_durability_5(query.last)) =>
        covered_by_effect(query.last)

\* C28: with durability 5, an action whose durability cost is 10 is legal
\* whether or not Waste Not or Trained Perfection is active, an action
\* needing no more than durability above 0; the durability it leaves is not
\* negative only if Waste Not is active or trained_perfection is Active,
\* and is -5 otherwise.
C28_LegalAndNegativeUnlessCovered ==
    (pc = "effects" /\ query.last.some
       /\ cost_10_at_durability_5(query.last)) =>
        /\ query.last.err # "no_durability"
        /\ query.last.action \in { "BasicSynthesis", "CarefulSynthesis",
                                   "BasicTouch" } => query.last.ok
        /\ query.last.ok =>
               /\ sim_state.durability >= 0 <=> covered_by_effect(query.last)
               /\ ~covered_by_effect(query.last) => sim_state.durability = -5

\* BasicSynthesis at durability 5 with neither effect: accepted, and the
\* durability is -5
C28_Witness ==
    /\ effect_used
    /\ query.last.action = "BasicSynthesis"
    /\ query.last.condition = "Normal"
    /\ query.last.before.durability = 5
    /\ ~covered_by_effect(query.last)
    /\ sim_state.durability = -5
    /\ sim_state.progress = 120

\* the same under Waste Not: the durability is 0
C28_WitnessWasteNot ==
    /\ effect_used
    /\ cost_10_at_durability_5(query.last)
    /\ query.last.before.effects.waste_not > 0
    /\ query.last.before.effects.trained_perfection = "Available"
    /\ sim_state.durability = 0

\* the same under Trained Perfection: the durability is still 5
C28_WitnessTrainedPerfection ==
    /\ effect_used
    /\ cost_10_at_durability_5(query.last)
    /\ query.last.before.effects.trained_perfection = "Active"
    /\ query.last.before.effects.manipulation = 0
    /\ sim_state.durability = 5

(***************************************************************************)
(* ActionMask of the game settings: a u64 with one bit per action          *)
(***************************************************************************)
\* ALL_ACTIONS of the game settings, the list actions_iter filters
GAME_ALL_ACTIONS ==
    << "BasicSynthesis", "BasicTouch", "MasterMend", "Observe",
       "TricksOfTheTrade", "WasteNot", "Veneration", "StandardTouch",
       "ComboStandardTouch", "GreatStrides", "Innovation", "WasteNot2",
       "ByregotsBlessing", "PreciseTouch", "MuscleMemory", "CarefulSynthesis",
       "Manipulation", "PrudentTouch", "FocusedSynthesis", "FocusedTouch",
       "Reflect", "PreparatoryTouch", "Groundwork", "DelicateSynthesis",
       "IntensiveSynthesis", "AdvancedTouch", "ComboAdvancedTouch",
       "PrudentSynthesis", "TrainedFinesse" >>

\* enum Action of the game: the variants in the order of their
\* declaration, the two Combo variants that ALL_ACTIONS names at the place
\* they have there
GameActionEnum ==
    << "BasicSynthesis", "BasicTouch", "MasterMend", "Observe",
       "TricksOfTheTrade", "WasteNot", "Veneration", "StandardTouch",
       "ComboStandardTouch",
       "GreatStrides", "Innovation", "WasteNot2", "ByregotsBlessing",
       "PreciseTouch", "MuscleMemory", "CarefulSynthesis", "Manipulation",
       "PrudentTouch", "FocusedSynthesis", "FocusedTouch", "Reflect",
       "PreparatoryTouch", "Groundwork", "DelicateSynthesis",
       "IntensiveSynthesis", "AdvancedTouch",
       "ComboAdvancedTouch",
       "PrudentSynthesis", "TrainedFinesse" >>

GameAction == { GameActionEnum[i] : i \in 1..Len(GameActionEnum) }

\* action as u64: the position of the variant in the enum, from 0
discriminant(action) ==
    (CHOOSE i \in 1..Len(GameActionEnum) : GameActionEnum[i] = action) - 1

RECURSIVE bit_and(_, _)
\* a & b
bit_and(a, b) ==
    IF a = 0 \/ b = 0 THEN 0
    ELSE (a % 2) * (b % 2) + 2 * bit_and(a \div 2, b \div 2)

RECURSIVE bit_or(_, _)
\* a | b
bit_or(a, b) ==
    IF a = 0 THEN b
    ELSE IF b = 0 THEN a
    ELSE Max(a % 2, b % 2) + 2 * bit_or(a \div 2, b \div 2)

RECURSIVE bit_xor(_, _)
\* a ^ b
bit_xor(a, b) ==
    IF a = 0 THEN b
    ELSE IF b = 0 THEN a
    ELSE ((a + b) % 2) + 2 * bit_xor(a \div 2, b \div 2)

\* 1 << n
bit_of(n) == 2 ^ n

\* a >> n
shift_right(a, n) == a \div (2 ^ n)

mask_none == 0

mask_has(mask, action) ==
    bit_and(mask, bit_of(discriminant(action))) # 0

mask_add(mask, action) ==
    bit_or(mask, bit_of(discriminant(action)))

\* remove flipping the bit of the action
mask_remove_by_xor(mask, action) ==
    bit_xor(mask, bit_of(discriminant(action)))

mask_remove(mask, action) ==
    bit_xor(bit_or(mask, bit_of(discriminant(action))),
            bit_of(discriminant(action)))

mask_union(mask, other) == bit_or(mask, other)

mask_intersection(mask, other) == bit_and(mask, other)

\* ALL_ACTIONS filtered by the bit of each action
mask_actions_iter(mask) ==
    SelectSeq(GAME_ALL_ACTIONS,
              LAMBDA action :
                  bit_and(shift_right(mask, discriminant(action)), 1) # 0)

\* the actions the masks are built from
MaskActions ==
    { "BasicSynthesis", "ComboStandardTouch", "Manipulation", "TrainedFinesse" }

InitMask ==
    /\ settings = EffectTestSettings
    /\ backload_progress = FALSE
    /\ pc = "mask"
    /\ InitMacroVars
    /\ quality_upper_bound_solver = NewQualitySolver
    /\ step_lower_bound_solver = NewStepLowerBoundSolver
    /\ sim_state = NewState(settings)
    /\ query = [ kind |-> "mask", mask |-> mask_none, other |-> mask_none,
                 last |-> [ op |-> "none" ] ]

\* the masks after an operation, with the operation and its operands
MaskBecomes(op, action, mask) ==
    /\ query' = [ kind |-> "mask", mask |-> mask,
                  other |-> IF op = "copy" THEN query.mask ELSE query.other,
                  last |-> [ op |-> op, action |-> action,
                             mask |-> query.mask, other |-> query.other ] ]
    /\ UNCHANGED << settings, backload_progress, pc, macro_vars, sim_state,
                    quality_upper_bound_solver, step_lower_bound_solver >>

MaskAdd ==
    /\ pc = "mask"
    /\ \E action \in MaskActions :
           MaskBecomes("add", action, mask_add(query.mask, action))

MaskRemove ==
    /\ pc = "mask"
    /\ \E action \in MaskActions :
           MaskBecomes("remove", action, mask_remove(query.mask, action))

MaskUnion ==
    /\ pc = "mask"
    /\ MaskBecomes("union", "", mask_union(query.mask, query.other))

MaskIntersection ==
    /\ pc = "mask"
    /\ MaskBecomes("intersection", "",
                   mask_intersection(query.mask, query.other))

\* ActionMask is Copy: the mask is kept aside and a new one begun
MaskCopy ==
    /\ pc = "mask"
    /\ MaskBecomes("copy", "", mask_none)

NextMask ==
    MaskAdd \/ MaskRemove \/ MaskUnion \/ MaskIntersection \/ MaskCopy

SpecMask == InitMask /\ [][NextMask]_vars

\* the actions a mask has
mask_set(mask) == { a \in GameAction : mask_has(mask, a) }

\* the sequence lists each of its elements once
each_once(seq) ==
    \A i, j \in 1..Len(seq) : seq[i] = seq[j] => i = j

\* C29: ActionMask behaves as a set of actions: has(add(m, a), a) is
\* true, has(remove(m, a), a) is false, add and remove leave has(., b) as it
\* was for every b other than a, has(union(m, n), a) is has(m, a) or
\* has(n, a), has(intersection(m, n), a) is has(m, a) and has(n, a), and
\* actions_iter lists exactly the actions the mask has, each once.
C29_ActionMaskIsASet ==
    (pc = "mask" /\ query.last.op # "none") =>
        LET l == query.last
            m == query.mask
        IN  /\ l.op = "add" =>
                   /\ mask_has(m, l.action)
                   /\ \A b \in GameAction \ { l.action } :
                          mask_has(m, b) <=> mask_has(l.mask, b)
            /\ l.op = "remove" =>
                   /\ ~mask_has(m, l.action)
                   /\ \A b \in GameAction \ { l.action } :
                          mask_has(m, b) <=> mask_has(l.mask, b)
            /\ l.op = "union" =>
                   \A a \in GameAction :
                       mask_has(m, a) <=>
                           (mask_has(l.mask, a) \/ mask_has(l.other, a))
            /\ l.op = "intersection" =>
                   \A a \in GameAction :
                       mask_has(m, a) <=>
                           (mask_has(l.mask, a) /\ mask_has(l.other, a))
            /\ each_once(mask_actions_iter(m))
            /\ { mask_actions_iter(m)[i] : i \in 1..Len(mask_actions_iter(m)) }
                   = mask_set(m)
            /\ each_once(mask_actions_iter(query.other))
            /\ { mask_actions_iter(query.other)[i] :
                   i \in 1..Len(mask_actions_iter(query.other)) }
                   = mask_set(query.other)

\* an action removed from a mask that has two others, and a mask kept aside
C29_Witness ==
    /\ pc = "mask"
    /\ query.last.op = "remove"
    /\ mask_has(query.last.mask, query.last.action)
    /\ Len(mask_actions_iter(query.mask)) = 2
    /\ Len(mask_actions_iter(query.other)) = 1

\* an action removed from a mask that does not have it
C29_WitnessRemoveAbsent ==
    /\ pc = "mask"
    /\ query.last.op = "remove"
    /\ ~mask_has(query.last.mask, query.last.action)
    /\ query.mask = query.last.mask
    /\ query.mask # mask_none

\* the intersection of two masks that share one action and differ in others
C29_WitnessIntersection ==
    /\ pc = "mask"
    /\ query.last.op = "intersection"
    /\ Len(mask_actions_iter(query.mask)) = 1
    /\ Len(mask_actions_iter(query.last.mask)) = 2
    /\ Len(mask_actions_iter(query.last.other)) = 2

(***************************************************************************)
(* The host application: one frame of MacroSolverApp::update, as far as    *)
(* the recipe, the solver configuration and the solver bridge go.           *)
(***************************************************************************)
MaxFrames == 3

\* what the user does in one frame, and the solver event waiting
FrameInputs ==
    [ recipe : { "keep", "expert", "normal" },
      backload_progress : BOOLEAN, adversarial : BOOLEAN,
      minimize_steps : BOOLEAN, solve : BOOLEAN, event : { "none", "final" } ]

SolverConfigs ==
    [ backload_progress : BOOLEAN, adversarial : BOOLEAN,
      minimize_steps : BOOLEAN ]

NoInput == [ some |-> FALSE ]

\* MacroSolverApp::new: the recipe and the configuration are the stored ones
InitApp ==
    /\ settings = EffectTestSettings
    /\ backload_progress = FALSE
    /\ pc = "app"
    /\ InitMacroVars
    /\ quality_upper_bound_solver = NewQualitySolver
    /\ step_lower_bound_solver = NewStepLowerBoundSolver
    /\ sim_state = NewState(settings)
    /\ \E is_expert \in BOOLEAN, solver_config \in SolverConfigs :
           query = [ kind |-> "app", frames |-> 0, is_expert |-> is_expert,
                     solver_config |-> solver_config,
                     solver_pending |-> FALSE, sent |-> NoInput ]

\* the game settings of a recipe, as far as the solver mode goes
get_game_settings(is_expert, adversarial) == [ adversarial |-> adversarial ]

\* a FinalSolution event ends the pending solve
solver_update(app, in) ==
    IF in.event = "final" /\ app.solver_pending
    THEN [ app EXCEPT !.solver_pending = FALSE ]
    ELSE app

\* RecipeSelect: another recipe, or the Expert recipe checkbox
draw_list_select_widgets(app, in) ==
    CASE in.recipe = "expert" -> [ app EXCEPT !.is_expert = TRUE ]
      [] in.recipe = "normal" -> [ app EXCEPT !.is_expert = FALSE ]
      [] OTHER -> app

\* the configuration widget with the reliability checkbox left enabled and
\* the configuration left as stored for an expert recipe
draw_configuration_widget_without_clear(app, in) ==
    [ app EXCEPT
        !.solver_config =
            [ backload_progress |-> IF in.backload_progress
                                    THEN ~@.backload_progress
                                    ELSE @.backload_progress,
              adversarial |-> IF in.adversarial
                              THEN ~@.adversarial ELSE @.adversarial,
              minimize_steps |-> IF in.minimize_steps
                                 THEN ~@.minimize_steps
                                 ELSE @.minimize_steps ] ]

\* the checkboxes of the solver settings; for an expert recipe adversarial
\* is cleared and its checkbox disabled
draw_configuration_widget(app, in) ==
    [ app EXCEPT
        !.solver_config =
            [ backload_progress |-> IF in.backload_progress
                                    THEN ~@.backload_progress
                                    ELSE @.backload_progress,
              adversarial |-> IF app.is_expert THEN FALSE
                              ELSE IF in.adversarial
                              THEN ~@.adversarial ELSE @.adversarial,
              minimize_steps |-> IF in.minimize_steps
                                 THEN ~@.minimize_steps
                                 ELSE @.minimize_steps ] ]

\* SolverInput::Start(game_settings, solver_config) goes to the bridge
on_solve_button_clicked(app, stored) ==
    [ app EXCEPT
        !.solver_pending = TRUE,
        !.sent = [ some |-> TRUE, kind |-> "Start",
                   is_expert |-> app.is_expert,
                   stored |-> stored,
                   settings |-> get_game_settings(app.is_expert,
                                                  app.solver_config.adversarial),
                   solver_config |-> app.solver_config ] ]

\* the configuration widget, then the Solve button
draw_config_and_results_widget(app, in, stored) ==
    IF in.solve
    THEN on_solve_button_clicked(draw_configuration_widget(app, in), stored)
    ELSE draw_configuration_widget(app, in)

\* one frame: stored is the configuration and the recipe the frame began with
update(app, in) ==
    draw_config_and_results_widget(
        draw_list_select_widgets(solver_update(app, in), in), in,
        [ is_expert |-> app.is_expert, solver_config |-> app.solver_config ])

AppUpdate ==
    /\ pc = "app"
    /\ query.frames < MaxFrames
    /\ \E in \in FrameInputs :
           query' = [ update(query, in) EXCEPT !.frames = query.frames + 1 ]
    /\ UNCHANGED << settings, backload_progress, pc, macro_vars, sim_state,
                    quality_upper_bound_solver, step_lower_bound_solver >>

NextApp == AppUpdate

SpecApp == InitApp /\ [][NextApp]_vars

\* C30: every Start request the host sends for a recipe flagged is_expert
\* carries adversarial = false, in the solver configuration and in the game
\* settings, whatever the stored configuration was when the frame began.
C30_ExpertStartIsNotAdversarial ==
    (pc = "app" /\ query.sent.some /\ query.sent.kind = "Start"
       /\ query.sent.is_expert) =>
        /\ ~query.sent.solver_config.adversarial
        /\ ~query.sent.settings.adversarial

\* Solve clicked in a frame that began with an expert recipe and the
\* reliability option stored as set
C30_Witness ==
    /\ pc = "app"
    /\ query.sent.some
    /\ query.sent.is_expert
    /\ query.sent.stored.is_expert
    /\ query.sent.stored.solver_config.adversarial
    /\ ~query.sent.solver_config.adversarial

\* Solve clicked in the frame in which the recipe was made an expert one
C30_WitnessSameFrame ==
    /\ pc = "app"
    /\ query.sent.some
    /\ query.sent.is_expert
    /\ ~query.sent.stored.is_expert
    /\ query.sent.stored.solver_config.adversarial
    /\ ~query.sent.solver_config.adversarial

\* a Start request for another recipe carries the option as set
C30_WitnessOrdinary ==
    /\ pc = "app"
    /\ query.sent.some
    /\ ~query.sent.is_expert
    /\ query.sent.solver_config.adversarial
    /\ query.sent.settings.adversarial

(***************************************************************************)
(* The merge buffer of the builder.  merge_buffer is a fixed array         *)
(* ([ParetoValue; 1024], pareto_front_builder.rs l.18, l.33); the model    *)
(* keeps its length as a bound, so that operands longer than the buffer    *)
(* are among the inputs.  A write through a checked index (buffer[i],      *)
(* buffer[i..j]) at or beyond the length panics before it writes; the      *)
(* write of try_insert is get_unchecked_mut, checked by an assertion only  *)
(* in a build with cfg(test).                                              *)
(***************************************************************************)
\* merge_buffer.len()
MergeBufferLen == 3

\* what the writes of one merge do: aborted (a panic of an assertion or of
\* a checked index, before the write), out_of_range (an unchecked write at
\* an index >= MergeBufferLen took place), written (the number of points
\* written inside the buffer)
MergeWrites(aborted, out_of_range, written) ==
    [ aborted |-> aborted, out_of_range |-> out_of_range, written |-> written ]

\* merge_mixed as to its writes: slice_c is the buffer, idx_c the number of
\* points merge has already placed in it, inserted the points try_insert
\* lets in
merge_mixed_writes(slice_a, slice_b, idx_c, rolling_max, cfg_test) ==
    LET inserted == Len(merge_mixed(slice_a, slice_b, << >>, rolling_max))
        end_c == idx_c + inserted
    IN  IF ~(Len(slice_a) + Len(slice_b) <= MergeBufferLen)
        THEN MergeWrites(TRUE, FALSE, idx_c)
        ELSE IF end_c <= MergeBufferLen
        THEN MergeWrites(FALSE, FALSE, end_c)
        ELSE IF cfg_test
        THEN MergeWrites(TRUE, FALSE, MergeBufferLen)
        ELSE MergeWrites(FALSE, TRUE, MergeBufferLen)

\* merge as to its writes into merge_buffer
merge_writes(slice_a, slice_b, cfg_test) ==
    LET idx == find_first_non_dominated(slice_a, slice_b)
        idx_a == idx[1]
        idx_b == idx[2]
        cnt_a == Len(slice_a)
        cnt_b == Len(slice_b) - idx_b
    IN  IF idx_b >= Len(slice_b)
        THEN MergeWrites(FALSE, FALSE, 0)
        ELSE IF idx_a >= Len(slice_a)
        THEN IF cnt_a > MergeBufferLen
             THEN MergeWrites(TRUE, FALSE, 0)
             ELSE IF cnt_a + cnt_b > MergeBufferLen
             THEN MergeWrites(TRUE, FALSE, cnt_a)
             ELSE MergeWrites(FALSE, FALSE, cnt_a + cnt_b)
        ELSE IF idx_a >= MergeBufferLen
        THEN MergeWrites(TRUE, FALSE, IF idx_a > MergeBufferLen THEN 0 ELSE idx_a)
        ELSE merge_mixed_writes(Slice(slice_a, idx_a, Len(slice_a)),
                                Slice(slice_b, idx_b + 1, Len(slice_b)),
                                idx_a + 1, slice_b[idx_b + 1].first, cfg_test)

\* two operand segments and no merge yet
InitBuffer ==
    /\ settings = builder_settings(MaxCoord + 1, MaxCoord + 1)
    /\ backload_progress = FALSE
    /\ pc = "buffer"
    /\ InitMacroVars
    /\ quality_upper_bound_solver = NewQualitySolver
    /\ step_lower_bound_solver = NewStepLowerBoundSolver
    /\ query \in { [ kind |-> "buffer", values_a |-> a, values_b |-> b,
                     last |-> NoCall ] :
                     a \in random_values, b \in random_values }
    /\ sim_state = NewState(settings)

\* push_slice(values_a), push_slice(values_b), merge() in a build with or
\* without cfg(test)
BufferMergeIn(cfg_test) ==
    /\ pc = "buffer"
    /\ ~query.last.some
    /\ LET b2 == push_slice(push_slice(builder, query.values_a), query.values_b)
           w == merge_writes(query.values_a, query.values_b, cfg_test)
       IN  /\ query' = [ query EXCEPT !.last =
                           [ some |-> TRUE, cfg_test |-> cfg_test, writes |-> w ] ]
           /\ BuilderBecomes(IF w.aborted THEN b2
                             ELSE merge(b2, settings.max_progress,
                                        settings.max_quality))
    /\ UNCHANGED << settings, backload_progress, pc, macro_vars,
                    step_lower_bound_solver, sim_state >>

BufferMergeTest == BufferMergeIn(TRUE)

BufferMergeRelease == BufferMergeIn(FALSE)

NextBuffer == BufferMergeTest \/ BufferMergeRelease

SpecBuffer == InitBuffer /\ [][NextBuffer]_vars

buffer_merged == pc = "buffer" /\ query.last.some

\* C31: merge never writes a point at an index at or beyond the length of
\* the merge buffer: whatever the two operand segments, it either completes
\* with every write inside the buffer or aborts before an out-of-range write
C31_MergeWritesInsideBuffer ==
    buffer_merged =>
        /\ ~query.last.writes.out_of_range
        /\ query.last.writes.written <= MergeBufferLen

\* C31, the half that holds: whenever an operand alone is longer than the
\* buffer, or the two remainders handed to merge_mixed are, merge aborts
C31_ChecksAbortFirst ==
    (buffer_merged /\ query.last.cfg_test) => ~query.last.writes.out_of_range

\* a merge that completed inside the buffer through merge_mixed
C31_WitnessInside ==
    /\ buffer_merged
    /\ ~query.last.writes.aborted
    /\ ~query.last.writes.out_of_range
    /\ query.last.writes.written = MergeBufferLen

\* a merge whose assertion in merge_mixed passed and whose unchecked write
\* went past the buffer
C31_WitnessOutOfRange ==
    /\ buffer_merged
    /\ ~query.last.cfg_test
    /\ query.last.writes.out_of_range
    /\ Len(query.values_a) + Len(query.values_b) > MergeBufferLen

\* a merge that an assertion or a checked index stopped
C31_WitnessAborted ==
    /\ buffer_merged
    /\ query.last.writes.aborted

(***************************************************************************)
(* The bound queries on a front already solved: a solver whose memo holds  *)
(* one front for the reduced state of the state asked about.               *)
(***************************************************************************)
\* settings whose caps lie among and above the coordinates of random_values
FrontSettingsChoices ==
    { builder_settings(MaxCoord + 1, max_quality) :
        max_quality \in { MaxCoord - 1, MaxCoord + 2 } }

\* the states asked about: some progress made and some quality reached
front_states(cfg) ==
    { [ NewState(cfg) EXCEPT !.progress = progress, !.quality = quality ] :
        progress \in 0..(MaxCoord + 1), quality \in { 0, MaxCoord - 1 } }

\* the id of a front that is the whole storage
whole_storage(front) == [ offset |-> 0, length |-> Len(front) ]

\* a quality upper-bound solver that has solved reduced with this front
quality_solver_with(front, reduced) ==
    insert_solved([ NewQualitySolver EXCEPT !.pareto_front_builder.storage = front ],
                  reduced, whole_storage(front))

\* a step DP that has solved reduced with this front
step_solver_with(front, reduced) ==
    [ NewStepSolverImpl EXCEPT !.pareto_front_builder.storage = front,
                               !.solved_states = (reduced :> whole_storage(front)) ]

InitFront ==
    /\ settings \in FrontSettingsChoices
    /\ backload_progress = FALSE
    /\ pc = "front"
    /\ InitMacroVars
    /\ quality_upper_bound_solver = NewQualitySolver
    /\ step_lower_bound_solver = NewStepLowerBoundSolver
    /\ query \in { [ kind |-> "front", front |-> front, last |-> NoCall ] :
                     front \in random_values }
    /\ sim_state \in front_states(settings)

\* the index at which the query reads the front, or the length of the
\* front when it returns before reading
front_query_index(front, missing_progress) ==
    IF front = << >> THEN 0
    ELSE IF front[Len(front)].first < missing_progress THEN Len(front)
    ELSE binary_search_index(front, missing_progress)

FrontAnswered(solver, result) ==
    query' = [ query EXCEPT !.last =
                 [ some |-> TRUE, solver |-> solver, result |-> result,
                   missing_progress |->
                       SatSub16(settings.max_progress, sim_state.progress),
                   index |-> front_query_index(
                       query.front,
                       SatSub16(settings.max_progress, sim_state.progress)) ] ]

\* QualityUpperBoundSolver::quality_upper_bound on the solved state
FrontQuality ==
    /\ pc = "front"
    /\ ~query.last.some
    /\ LET b == quality_upper_bound(
                    quality_solver_with(query.front,
                                        from_simulation_state(sim_state, solver_cfg)),
                    sim_state, solver_cfg)
       IN  /\ b.outcome = "Some"
           /\ FrontAnswered("quality", b.bound)
    /\ UNCHANGED << settings, backload_progress, pc, macro_vars,
                    quality_upper_bound_solver, step_lower_bound_solver,
                    sim_state >>

\* StepLowerBoundSolverImpl::quality_upper_bound on the solved state
FrontStep ==
    /\ pc = "front"
    /\ ~query.last.some
    /\ \E kind \in { "fast", "slow" }, step_budget \in 1..2 :
         FrontAnswered(
             "step",
             step_quality_upper_bound(
                 step_solver_with(query.front,
                                  step_from_state(kind, sim_state, step_budget)),
                 sim_state, step_budget, kind,
                 StepLowerBoundSolverImpl_settings(kind, settings)).result)
    /\ UNCHANGED << settings, backload_progress, pc, macro_vars,
                    quality_upper_bound_solver, step_lower_bound_solver,
                    sim_state >>

NextFront == FrontQuality \/ FrontStep

SpecFront == InitFront /\ [][NextFront]_vars

front_asked == pc = "front" /\ query.last.some

\* the second coordinates of the points with first >= missing_progress
seconds_from(front, missing_progress) ==
    { front[i].second : i \in { j \in 1..Len(front) :
                                  front[j].first >= missing_progress } }

\* the cap of the solver that answered
query_cap == IF query.last.solver = "quality" THEN settings.max_quality
             ELSE 2 * settings.max_quality

\* C32: a bound query returns 0 when the front is empty or its largest
\* first coordinate is below the missing progress; otherwise it returns the
\* current quality plus the largest second coordinate among the points
\* whose first coordinate is >= the missing progress, capped at max_quality
\* in the quality solver and at 2 * max_quality in the step solver, and the
\* index it reads is inside the front
C32_BoundQuery ==
    front_asked =>
        LET seconds == seconds_from(query.front, query.last.missing_progress)
        IN  /\ seconds = { } => query.last.result = 0
            /\ seconds # { } =>
                 /\ query.last.result =
                        Min(query_cap, sim_state.quality + SetMax(seconds))
                 /\ query.last.index < Len(query.front)

\* a query answered from a point that is neither the first nor the last of
\* the front, below the cap
C32_Witness ==
    /\ front_asked
    /\ query.last.index > 0
    /\ query.last.index + 1 < Len(query.front)
    /\ sim_state.quality > 0
    /\ query.last.result < query_cap
    /\ query.last.result > 0

\* a query of the step solver answered above max_quality
C32_WitnessStepCap ==
    /\ front_asked
    /\ query.last.solver = "step"
    /\ query.last.result > settings.max_quality

\* a query on a front that does not reach the missing progress
C32_WitnessShort ==
    /\ front_asked
    /\ query.front # << >>
    /\ query.last.index = Len(query.front)
    /\ query.last.result = 0

\* a query of the quality solver cut at max_quality
C32_WitnessQualityCap ==
    /\ front_asked
    /\ query.last.solver = "quality"
    /\ query.last.result = settings.max_quality
    /\ sim_state.quality
         + SetMax(seconds_from(query.front, query.last.missing_progress))
       > settings.max_quality

(***************************************************************************)
(* step_lower_bound against the two DPs asked budget by budget             *)
(***************************************************************************)
\* the bound of one DP of the solver as it stands, for a step budget
dp_bound(kind, step_budget) ==
    solver_quality_upper_bound(step_lower_bound_solver, kind, sim_state,
                               step_budget, settings).result

\* the DP of this kind reaches max_quality within step_budget steps
dp_reaches(kind, step_budget) ==
    dp_bound(kind, step_budget) >= settings.max_quality

\* the budgets from k up to the answer within which the DP reaches
\* max_quality
budgets_from(kind, k) ==
    { step_budget \in k..query.result : dp_reaches(kind, step_budget) }

\* step_lower_bound has answered for sim_state
step_answered == pc = "children" /\ query.kind = "step" /\ query.outcome = "Ok"

\* C33: step_lower_bound returns the least k >= k0 within which the
\* durability-aware DP reaches max_quality, k0 >= 1 being the least budget
\* within which the durability-free DP reaches it
C33_LeastBudget ==
    step_answered =>
        /\ budgets_from("fast", 1) # { }
        /\ LET k0 == SetMin(budgets_from("fast", 1))
           IN  /\ k0 >= 1
               /\ budgets_from("slow", k0) # { }
               /\ query.result = SetMin(budgets_from("slow", k0))

\* an answer above the budget of the durability-free DP, that budget being
\* one the doubling sweep does not visit
C33_Witness ==
    /\ step_answered
    /\ budgets_from("fast", 1) # { }
    /\ SetMin(budgets_from("fast", 1)) \notin { 1, 2, 4, 8 }
    /\ query.result > SetMin(budgets_from("fast", 1))

\* an answer that is the budget of the durability-free DP
C33_WitnessSame ==
    /\ step_answered
    /\ budgets_from("fast", 1) # { }
    /\ query.result = SetMin(budgets_from("fast", 1))
    /\ query.result \notin { 1, 2, 4, 8 }

(***************************************************************************)
(* The two DPs run to completion on a state: the quality upper-bound       *)
(* solver and the fast and slow step DPs for a step budget, on one         *)
(* recipe, so that their memo tables can be read entry by entry.           *)
(***************************************************************************)
MaxDPPlays == 1

MaxDPQueries == 2

MaxDPBudget == 2

\* the recipes of SettingsChoices with the smaller CP and quality
DPSettingsChoices ==
    { s \in SettingsChoices :
        s.max_cp = MaxCP - 30 /\ s.max_quality = MaxQuality - 10 }

InitDP ==
    /\ settings \in DPSettingsChoices
    /\ backload_progress \in BOOLEAN
    /\ pc = "dp"
    /\ InitMacroVars
    /\ quality_upper_bound_solver = NewQualitySolver
    /\ step_lower_bound_solver = NewStepLowerBoundSolver
    /\ query = [ kind |-> "dp", plays |-> 0, count |-> 0 ]
    /\ sim_state = NewState(settings)

\* the state asked about is a child of the last one
DPPlay ==
    /\ pc = "dp"
    /\ query.plays < MaxDPPlays
    /\ query.count = 0
    /\ ~is_final(sim_state, settings)
    /\ \E a \in settings.allowed_actions :
           /\ use_action(sim_state, a, "Normal", settings).ok
           /\ sim_state' = use_action(sim_state, a, "Normal", settings).state
    /\ query' = [ query EXCEPT !.plays = @ + 1 ]
    /\ UNCHANGED << settings, backload_progress, pc, macro_vars,
                    quality_upper_bound_solver, step_lower_bound_solver >>

\* QualityUpperBoundSolver::quality_upper_bound(state), not interrupted
DPQuality ==
    /\ pc = "dp"
    /\ query.count < MaxDPQueries
    /\ LET b == quality_upper_bound(quality_upper_bound_solver, sim_state,
                                    solver_cfg)
       IN  /\ b.outcome = "Some"
           /\ quality_upper_bound_solver' = b.Q
    /\ query' = [ query EXCEPT !.count = @ + 1 ]
    /\ UNCHANGED << settings, backload_progress, pc, macro_vars,
                    step_lower_bound_solver, sim_state >>

\* fast_solver.quality_upper_bound(state, step_budget), then the same of
\* slow_solver, as in an iteration of step_lower_bound
DPStep ==
    /\ pc = "dp"
    /\ query.count < MaxDPQueries
    /\ \E step_budget \in 1..MaxDPBudget :
         step_lower_bound_solver' =
             solver_quality_upper_bound(
                 solver_quality_upper_bound(step_lower_bound_solver, "fast",
                                            sim_state, step_budget, settings).SS,
                 "slow", sim_state, step_budget, settings).SS
    /\ query' = [ query EXCEPT !.count = @ + 1 ]
    /\ UNCHANGED << settings, backload_progress, pc, macro_vars,
                    quality_upper_bound_solver, sim_state >>

NextDP == DPPlay \/ DPQuality \/ DPStep

SpecDP == InitDP /\ [][NextDP]_vars

(***************************************************************************)
(* What each child of a solved state adds to the front of that state       *)
(***************************************************************************)
\* the points of a front moved by the gain of an action
shifted_points(front, action_progress, action_quality) ==
    { ParetoValue(p.first + action_progress, p.second + action_quality) :
        p \in points_of(front) }

\* q is at least as good as p once both are cut at the caps of the recipe
covers(q, p, cfg) ==
    /\ Min(q.first, cfg.max_progress) >= Min(p.first, cfg.max_progress)
    /\ Min(q.second, cfg.max_quality) >= Min(p.second, cfg.max_quality)

\* the front holds points of P only, and a point as good as each point of P
front_of_points(front, P, cfg) ==
    /\ points_of(front) \subseteq P
    /\ \A p \in P : \E q \in points_of(front) : covers(q, p, cfg)

\* the front of a reduced state of the quality DP: its memo entry, or what
\* solve_state builds for it on the table as it stands
quality_own_front(Q, reduced, cfg) ==
    IF reduced.combo = "None" /\ is_solved(Q, reduced)
    THEN memo_front(Q, reduced)
    ELSE peek(run_solve_state(
                  [ Q EXCEPT !.pareto_front_builder = clear(@),
                             !.flag = FALSE, !.fuse = -1, !.ok = TRUE,
                             !.stack = << >> ],
                  reduced, cfg).pareto_front_builder)

\* the child of reduced by a search action can continue, ends the recursion
\* within the allowed deficit, or is beyond it
quality_child_kind(r, cfg) ==
    IF ~r.ok THEN "none"
    ELSE IF r.state.cp >= cfg.durability_cost THEN "continues"
    ELSE IF r.state.cp >= -cfg.durability_cost THEN "ends"
    ELSE "beyond"

\* what the claim has the child r of a state contribute
quality_contribution(Q, r, cfg) ==
    IF quality_child_kind(r, cfg) = "continues"
    THEN shifted_points(quality_own_front(Q, r.state, cfg), r.progress, r.quality)
    ELSE IF quality_child_kind(r, cfg) = "ends" /\ r.progress > 0
    THEN { ParetoValue(r.progress, r.quality) }
    ELSE { }

\* the search actions solve_normal_state tries on a state
quality_actions(reduced, cfg) ==
    { search_actions_of(reduced)[i] :
        i \in { j \in 1..Len(search_actions_of(reduced)) :
                  should_use_action(reduced, search_actions_of(reduced)[j], cfg) } }

quality_contributions(Q, reduced, cfg) ==
    UNION { quality_contribution(Q, reduced_use_action(reduced, a, cfg), cfg) :
              a \in quality_actions(reduced, cfg) }

\* the child of a state of a step DP by the result r of use_action
step_child_kind(reduced, r, cfg) ==
    IF ~r.ok THEN "none"
    ELSE IF reduced.steps_budget - 1 # 0 /\ ~is_final(r.state, cfg)
    THEN "continues"
    ELSE "ends"

step_own_front(T, kind, reduced, cfg) ==
    IF reduced \in DOMAIN T.solved_states
    THEN retrieve(T.pareto_front_builder, T.solved_states[reduced])
    ELSE LET T1 == run_step_solve_state(
                       [ T EXCEPT !.pareto_front_builder = clear(@) ],
                       reduced, kind, cfg)
         IN  retrieve(T1.pareto_front_builder, T1.solved_states[reduced])

step_contribution(T, kind, reduced, r, cfg) ==
    IF step_child_kind(reduced, r, cfg) = "continues"
    THEN shifted_points(
             step_own_front(T, kind,
                            step_from_state(kind, r.state, reduced.steps_budget - 1),
                            cfg),
             r.state.progress, r.state.quality)
    ELSE IF step_child_kind(reduced, r, cfg) = "ends" /\ r.state.progress > 0
    THEN { ParetoValue(r.state.progress, r.state.quality) }
    ELSE { }

step_contributions(T, kind, reduced, cfg) ==
    UNION { step_contribution(
                T, kind, reduced,
                use_action(step_to_state(reduced), a, "Normal", cfg), cfg) :
              a \in cfg.allowed_actions }

\* the DP of this kind inside the step lower-bound solver
step_dp(kind) ==
    IF kind = "fast" THEN step_lower_bound_solver.fast_solver
    ELSE step_lower_bound_solver.slow_solver

step_cfg(kind) == StepLowerBoundSolverImpl_settings(kind, settings)

\* C34: in both DPs the front of a solved state is made of what its
\* children contribute and of nothing else: a child that ends the recursion
\* (no durability left within the allowed deficit, craft final, or step
\* budget used up) contributes the single point (action_progress,
\* action_quality) iff action_progress > 0, a child that can continue
\* contributes its own front shifted by (action_progress, action_quality)
C34_ChildContributions ==
    pc = "dp" =>
        /\ \A reduced \in DOMAIN quality_upper_bound_solver.solved_states :
               front_of_points(
                   memo_front(quality_upper_bound_solver, reduced),
                   quality_contributions(quality_upper_bound_solver, reduced,
                                         solver_cfg),
                   solver_cfg)
        /\ \A kind \in { "fast", "slow" } :
               \A reduced \in DOMAIN step_dp(kind).solved_states :
                   front_of_points(
                       memo_front(step_dp(kind), reduced),
                       step_contributions(step_dp(kind), kind, reduced,
                                          step_cfg(kind)),
                       step_cfg(kind))

\* a solved state of the slow step DP with a child that ends the recursion
\* on progress, a child that ends it without progress and a child that
\* continues, whose front holds a single point and a shifted point
C34_Witness ==
    /\ pc = "dp"
    /\ \E reduced \in DOMAIN step_dp("slow").solved_states :
         LET cfg == step_cfg("slow")
             res(a) == use_action(step_to_state(reduced), a, "Normal", cfg)
             front == points_of(memo_front(step_dp("slow"), reduced))
         IN  /\ \E a \in cfg.allowed_actions :
                   /\ step_child_kind(reduced, res(a), cfg) = "ends"
                   /\ res(a).state.progress > 0
                   /\ ParetoValue(res(a).state.progress, res(a).state.quality)
                          \in front
             /\ \E a \in cfg.allowed_actions :
                   /\ step_child_kind(reduced, res(a), cfg) = "ends"
                   /\ res(a).state.progress = 0
                   /\ res(a).state.quality > 0
             /\ \E a \in cfg.allowed_actions :
                   /\ step_child_kind(reduced, res(a), cfg) = "continues"
                   /\ step_contribution(step_dp("slow"), "slow", reduced,
                                        res(a), cfg) \cap front # { }

\* a solved state of the quality DP with a child that ends the recursion
\* within the allowed deficit and a child that continues, both in its front
C34_WitnessQuality ==
    /\ pc = "dp"
    /\ \E reduced \in DOMAIN quality_upper_bound_solver.solved_states :
         LET res(a) == reduced_use_action(reduced, a, solver_cfg)
             front == points_of(memo_front(quality_upper_bound_solver, reduced))
         IN  /\ \E a \in quality_actions(reduced, solver_cfg) :
                   /\ quality_child_kind(res(a), solver_cfg) = "ends"
                   /\ res(a).progress > 0
                   /\ ParetoValue(res(a).progress, res(a).quality) \in front
             /\ \E a \in quality_actions(reduced, solver_cfg) :
                   /\ quality_child_kind(res(a), solver_cfg) = "continues"
                   /\ quality_contribution(quality_upper_bound_solver, res(a),
                                           solver_cfg) \cap front # { }

\* a child of the quality DP that ends the recursion without progress
C34_WitnessNoProgress ==
    /\ pc = "dp"
    /\ \E reduced \in DOMAIN quality_upper_bound_solver.solved_states :
         \E a \in quality_actions(reduced, solver_cfg) :
            LET r == reduced_use_action(reduced, a, solver_cfg)
            IN  /\ quality_child_kind(r, solver_cfg) = "ends"
                /\ r.progress = 0
                /\ r.quality > 0

\* a child of the quality DP beyond the allowed deficit, its action having
\* made progress
C34_WitnessBeyond ==
    /\ pc = "dp"
    /\ \E reduced \in DOMAIN quality_upper_bound_solver.solved_states :
         \E a \in quality_actions(reduced, solver_cfg) :
            LET r == reduced_use_action(reduced, a, solver_cfg)
            IN  /\ quality_child_kind(r, solver_cfg) = "beyond"
                /\ r.progress > 0

(***************************************************************************)
(* The actions the macro solver expands, read off the record of the last   *)
(* expansion and off every list the search has built                       *)
(***************************************************************************)
\* the recipes of SettingsChoices with a quality one touch reaches
LowQualitySettingsChoices ==
    { [ s EXCEPT !.max_quality = MaxQuality - 20 ] : s \in SettingsChoices }

\* the macro solver on the recipes of SettingsChoices and on recipes whose
\* quality is soon maxed out
InitMacroLow ==
    /\ settings \in SettingsChoices \cup LowQualitySettingsChoices
    /\ backload_progress \in BOOLEAN
    /\ pc = "solve"
    /\ InitMacroVars
    /\ InitSolvers
    /\ sim_state = NewState(settings)

SpecMacroLow == InitMacroLow /\ [][NextMacro]_vars

\* the popped state is one the search only finishes from
progress_only_search(state) ==
    \/ state.quality >= settings.max_quality
    \/ (backload_progress /\ state.progress # 0)

\* every list of actions the search has built: the path of each entry of
\* the queue's log, the solutions reported and the list returned
expanded_lists ==
    { backtrack(search_queue, id) : id \in 1..Len(search_queue.backtracking) }
    \cup macro_lists

\* C35: the macro solver never expands an action outside
\* settings.allowed_actions; a popped state with quality >= max_quality, or
\* with nonzero progress under backload_progress, is expanded with progress
\* and durability actions only, DelicateSynthesis left out; every other
\* popped state is expanded with all allowed progress, quality and
\* durability actions
C35_SearchActions ==
    /\ last_expansion.some =>
         /\ last_expansion.actions \subseteq settings.allowed_actions
         /\ IF progress_only_search(last_expansion.state)
            THEN /\ last_expansion.actions
                        \subseteq (PROGRESS_ACTIONS \cup DURABILITY_ACTIONS)
                 /\ "DelicateSynthesis" \notin last_expansion.actions
            ELSE last_expansion.actions =
                     settings.allowed_actions
                     \cap (PROGRESS_ACTIONS \cup QUALITY_ACTIONS
                           \cup DURABILITY_ACTIONS)
    /\ \A actions \in expanded_lists :
         \A i \in 1..Len(actions) :
            /\ actions[i] \in settings.allowed_actions
            /\ progress_only_search(state_before(actions, i)) =>
                 /\ actions[i] \in PROGRESS_ACTIONS \cup DURABILITY_ACTIONS
                 /\ actions[i] # "DelicateSynthesis"

\* a state popped with progress under backload_progress and quality still
\* open, on a recipe that allows quality actions and DelicateSynthesis: it
\* is expanded, and a child of it is in the log of the queue
C35_Witness ==
    /\ last_expansion.some
    /\ backload_progress
    /\ last_expansion.state.progress # 0
    /\ last_expansion.state.quality < settings.max_quality
    /\ "DelicateSynthesis" \in settings.allowed_actions
    /\ last_expansion.actions # { }
    /\ \E id \in 1..Len(search_queue.backtracking) :
         state_before(backtrack(search_queue, id),
                      Len(backtrack(search_queue, id))).progress # 0

\* a state popped with quality >= max_quality
C35_WitnessMaxQuality ==
    /\ last_expansion.some
    /\ last_expansion.state.quality >= settings.max_quality
    /\ last_expansion.state.progress = 0
    /\ last_expansion.actions # { }

\* a state popped with progress and expanded with quality actions
C35_WitnessFull ==
    /\ last_expansion.some
    /\ last_expansion.state.progress # 0
    /\ last_expansion.actions \cap QUALITY_ACTIONS # { }

(***************************************************************************)
(* use_action_combo on its own: the solvers' action combos played from the *)
(* start state of a recipe, with and without backload_progress and         *)
(* allow_unsound_branch_pruning.                                           *)
(***************************************************************************)
MaxComboPlays == 2

\* the combos played: the multi-step combos and some single actions
ComboChoices ==
    { Combo_StandardTouch, Combo_AdvancedTouch, Combo_FocusedTouch,
      Combo_RefinedTouch, Combo_PreciseTouch, Combo_IntensiveSynthesis,
      Single("BasicSynthesis"), Single("BasicTouch"), Single("Innovation"),
      Single("GreatStrides"), Single("DelicateSynthesis"),
      Single("QuickInnovation"), Single("Veneration") }

ComboSettingsChoices ==
    { [ EffectTestSettings EXCEPT !.adversarial = adversarial,
                                  !.max_durability = 5 * MaxDurabilityUnits + 10,
                                  !.max_progress = 20 * MaxProgress,
                                  !.max_quality = 20 * MaxQuality ] :
        adversarial \in BOOLEAN }

\* SolverSettings of the run
combo_cfg ==
    QualityUpperBoundSolver_new(settings, backload_progress, query.unsound)

InitCombo ==
    /\ settings \in ComboSettingsChoices
    /\ backload_progress \in BOOLEAN
    /\ pc = "combo"
    /\ InitMacroVars
    /\ quality_upper_bound_solver = NewQualitySolver
    /\ step_lower_bound_solver = NewStepLowerBoundSolver
    /\ query \in { [ kind |-> "combo", unsound |-> unsound, plays |-> 0,
                     last |-> NoCall ] : unsound \in BOOLEAN }
    /\ sim_state = NewState(settings)

\* use_action_combo(settings, state, action_combo) returned Ok(state)
ComboUse ==
    /\ pc = "combo"
    /\ query.plays < MaxComboPlays
    /\ \E action_combo \in ComboChoices :
         LET r == use_action_combo(combo_cfg, sim_state, action_combo)
         IN  /\ r.ok
             /\ sim_state' = r.state
             /\ query' = [ query EXCEPT
                             !.plays = @ + 1,
                             !.last = [ some |-> TRUE, ok |-> TRUE,
                                        before |-> sim_state,
                                        action_combo |-> action_combo ] ]
    /\ UNCHANGED << settings, backload_progress, pc, macro_vars,
                    quality_upper_bound_solver, step_lower_bound_solver >>

\* use_action_combo returned Err: the caller keeps its state
ComboRejected ==
    /\ pc = "combo"
    /\ query.plays < MaxComboPlays
    /\ \E action_combo \in ComboChoices :
         LET r == use_action_combo(combo_cfg, sim_state, action_combo)
         IN  /\ ~r.ok
             /\ query' = [ query EXCEPT
                             !.plays = @ + 1,
                             !.last = [ some |-> TRUE, ok |-> FALSE,
                                        before |-> sim_state,
                                        action_combo |-> action_combo ] ]
    /\ UNCHANGED << settings, backload_progress, pc, macro_vars,
                    quality_upper_bound_solver, step_lower_bound_solver,
                    sim_state >>

NextCombo == ComboUse \/ ComboRejected

SpecCombo == InitCombo /\ [][NextCombo]_vars

\* the i-th primitive of the last combo played on the state s under the
\* Normal condition
primitive_on(s, i) ==
    use_action(s, query.last.action_combo[i], "Normal", combo_cfg.settings)

\* the primitives of the last combo (at most three) played one after the
\* other from the state before: [ok, state]
simulated ==
    LET n == Len(query.last.action_combo)
        r1 == primitive_on(query.last.before, 1)
        r2 == IF r1.ok /\ n >= 2 THEN primitive_on(r1.state, 2) ELSE r1
        r3 == IF r2.ok /\ n >= 3 THEN primitive_on(r2.state, 3) ELSE r2
    IN  r3

\* the fields use_action_combo may clear
quality_only_cleared(state) ==
    /\ state.unreliable_quality = 0
    /\ state.effects.inner_quiet = 0
    /\ state.effects.innovation = 0
    /\ state.effects.great_strides = 0
    /\ state.effects.guard = 0
    /\ state.effects.quick_innovation_available = FALSE

\* every field but combo and the fields use_action_combo may clear
same_other_fields(a, b) ==
    /\ a.progress = b.progress
    /\ a.quality = b.quality
    /\ a.durability = b.durability
    /\ a.cp = b.cp
    /\ a.effects.veneration = b.effects.veneration
    /\ a.effects.waste_not = b.effects.waste_not
    /\ a.effects.manipulation = b.effects.manipulation
    /\ a.effects.muscle_memory = b.effects.muscle_memory
    /\ a.effects.heart_and_soul = b.effects.heart_and_soul
    /\ a.effects.trained_perfection = b.effects.trained_perfection

combo_used == pc = "combo" /\ query.last.some /\ query.last.ok

\* C36: use_action_combo applies the primitives of the combo in order under
\* the Normal condition and returns a state whose combo is None; when the
\* state so simulated is progress-only, unreliable_quality, inner_quiet,
\* innovation, great_strides, guard and quick_innovation_available are
\* zeroed and every other field is as simulated; when it is not, no field
\* other than combo is altered; a primitive that is rejected makes the
\* whole combo fail
C36_ComboFrame ==
    /\ combo_used =>
         /\ simulated.ok
         /\ sim_state.combo = "None"
         /\ same_other_fields(sim_state, simulated.state)
         /\ IF is_progress_only_state(combo_cfg, simulated.state)
            THEN quality_only_cleared(sim_state)
            ELSE sim_state = [ simulated.state EXCEPT !.combo = "None" ]
    /\ (pc = "combo" /\ query.last.some /\ ~query.last.ok) => ~simulated.ok

\* a combo of several primitives whose simulated state is progress-only
\* and holds inner quiet and a combo, all of which the result has lost
C36_Witness ==
    /\ combo_used
    /\ Len(query.last.action_combo) >= 2
    /\ is_progress_only_state(combo_cfg, simulated.state)
    /\ simulated.state.effects.inner_quiet > 0
    /\ simulated.state.combo # "None"
    /\ sim_state.effects.inner_quiet = 0

\* a state that is not progress-only keeps its quality effects and loses
\* its combo
C36_WitnessKept ==
    /\ combo_used
    /\ ~is_progress_only_state(combo_cfg, simulated.state)
    /\ simulated.state.combo # "None"
    /\ sim_state.effects.inner_quiet > 0
    /\ sim_state.effects.innovation > 0

\* a progress-only state whose guard and innovation were cleared
C36_WitnessGuard ==
    /\ combo_used
    /\ is_progress_only_state(combo_cfg, simulated.state)
    /\ simulated.state.effects.guard > 0
    /\ simulated.state.effects.innovation > 0

\* a combo whose second primitive was rejected
C36_WitnessRejected ==
    /\ pc = "combo"
    /\ query.last.some
    /\ ~query.last.ok
    /\ primitive_on(query.last.before, 1).ok

(***************************************************************************)
(* step_lower_bound one loop iteration at a time, on the states the macro   *)
(* solver asks it about: the three loops with lo and hi at their width of   *)
(* eight bits.  hi *= 2 and hi += 1 are plain arithmetic: past 255 a build  *)
(* with overflow checks panics, a build without them wraps.                 *)
(***************************************************************************)
MaxBudgetPlays == 1

\* recipes without any action that restores durability, and one with
BudgetSettingsChoices ==
    { [ max_cp |-> cp, max_durability |-> 5 * MaxDurabilityUnits,
        max_progress |-> MaxProgress - 18, max_quality |-> quality,
        base_progress |-> 10, base_quality |-> 10,
        allowed_actions |-> allowed, adversarial |-> FALSE ]
      : cp \in { MaxCP, MaxCP + 100 },
        quality \in { MaxQuality - 10, MaxQuality },
        allowed \in { { "BasicSynthesis", "BasicTouch" },
                      { "BasicSynthesis", "BasicTouch", "MasterMend" } } }

InitBudget ==
    /\ settings \in BudgetSettingsChoices
    /\ backload_progress = FALSE
    /\ pc = "budget"
    /\ InitMacroVars
    /\ quality_upper_bound_solver = NewQualitySolver
    /\ step_lower_bound_solver = NewStepLowerBoundSolver
    /\ query = [ kind |-> "budget", plays |-> 0, phase |-> "idle",
                 lo |-> 0, hi |-> 0, tests |-> 0 ]
    /\ sim_state = NewState(settings)

\* the state asked about is a child of the last one
BudgetPlay ==
    /\ pc = "budget"
    /\ query.phase = "idle"
    /\ query.plays < MaxBudgetPlays
    /\ ~is_final(sim_state, settings)
    /\ \E a \in settings.allowed_actions :
           /\ use_action(sim_state, a, "Normal", settings).ok
           /\ sim_state' = use_action(sim_state, a, "Normal", settings).state
    /\ query' = [ query EXCEPT !.plays = @ + 1 ]
    /\ UNCHANGED << settings, backload_progress, pc, macro_vars,
                    quality_upper_bound_solver, step_lower_bound_solver >>

\* the macro solver asks for the step bound of a state whose quality upper
\* bound is at least max_quality: let mut lo = 0; let mut hi = 1
BudgetBegin ==
    /\ pc = "budget"
    /\ query.phase = "idle"
    /\ ~is_final(sim_state, settings)
    /\ LET b == quality_upper_bound(quality_upper_bound_solver, sim_state,
                                    solver_cfg)
       IN  /\ b.outcome = "Some"
           /\ b.bound >= settings.max_quality
           /\ quality_upper_bound_solver' = b.Q
    /\ query' = [ query EXCEPT !.phase = "doubling", !.lo = 0, !.hi = 1 ]
    /\ UNCHANGED << settings, backload_progress, pc, macro_vars,
                    step_lower_bound_solver, sim_state >>

\* the value of a u8 after an operation whose result is n: in range, or
\* past 255 a panic (overflow checks on) or the wrapped value (checks off)
u8_outcomes(n) ==
    IF n <= U8MAX THEN { [ phase |-> "same", value |-> n ] }
    ELSE { [ phase |-> "panicked", value |-> n ],
           [ phase |-> "wrapped", value |-> n % (U8MAX + 1) ] }

\* the loop at query.phase after the DP has answered q for step_budget
BudgetTested(q, step_budget, next) ==
    /\ step_lower_bound_solver' = q.SS
    /\ query' = [ query EXCEPT !.phase = next.phase, !.lo = next.lo,
                               !.hi = next.hi, !.tests = step_budget ]

\* while fast(hi) < max_quality { lo = hi; hi *= 2 }
BudgetDoubling ==
    /\ pc = "budget"
    /\ query.phase = "doubling"
    /\ LET q == solver_quality_upper_bound(step_lower_bound_solver, "fast",
                                           sim_state, query.hi, settings)
       IN  IF q.result < settings.max_quality
           THEN \E o \in u8_outcomes(query.hi * 2) :
                    BudgetTested(q, query.hi,
                        [ phase |-> IF o.phase = "same" THEN "doubling"
                                    ELSE o.phase,
                          lo |-> query.hi, hi |-> o.value ])
           ELSE BudgetTested(q, query.hi,
                    [ phase |-> "bisection", lo |-> query.lo,
                      hi |-> query.hi ])
    /\ UNCHANGED << settings, backload_progress, pc, macro_vars,
                    quality_upper_bound_solver, sim_state >>

\* while lo + 1 < hi { halve on fast((lo + hi) / 2) }
BudgetBisection ==
    /\ pc = "budget"
    /\ query.phase = "bisection"
    /\ IF query.lo + 1 < query.hi
       THEN LET mid == (query.lo + query.hi) \div 2
                q == solver_quality_upper_bound(step_lower_bound_solver,
                                                "fast", sim_state, mid,
                                                settings)
            IN  BudgetTested(q, mid,
                    IF q.result < settings.max_quality
                    THEN [ phase |-> "bisection", lo |-> mid,
                           hi |-> query.hi ]
                    ELSE [ phase |-> "bisection", lo |-> query.lo,
                           hi |-> mid ])
       ELSE /\ query' = [ query EXCEPT !.phase = "refine" ]
            /\ UNCHANGED step_lower_bound_solver
    /\ UNCHANGED << settings, backload_progress, pc, macro_vars,
                    quality_upper_bound_solver, sim_state >>

\* while slow(hi) < max_quality { hi += 1 }; then hi is returned
BudgetRefine ==
    /\ pc = "budget"
    /\ query.phase = "refine"
    /\ LET q == solver_quality_upper_bound(step_lower_bound_solver, "slow",
                                           sim_state, query.hi, settings)
       IN  IF q.result < settings.max_quality
           THEN \E o \in u8_outcomes(query.hi + 1) :
                    BudgetTested(q, query.hi,
                        [ phase |-> IF o.phase = "same" THEN "refine"
                                    ELSE o.phase,
                          lo |-> query.lo, hi |-> o.value ])
           ELSE BudgetTested(q, query.hi,
                    [ phase |-> "returned", lo |-> query.lo,
                      hi |-> query.hi ])
    /\ UNCHANGED << settings, backload_progress, pc, macro_vars,
                    quality_upper_bound_solver, sim_state >>

\* the caller goes on to its next state
BudgetNext ==
    /\ pc = "budget"
    /\ query.phase = "returned"
    /\ query' = [ query EXCEPT !.phase = "idle", !.lo = 0, !.hi = 0,
                               !.tests = 0 ]
    /\ UNCHANGED << settings, backload_progress, pc, macro_vars,
                    quality_upper_bound_solver, step_lower_bound_solver,
                    sim_state >>

NextBudget ==
    \/ BudgetPlay
    \/ BudgetBegin
    \/ BudgetDoubling
    \/ BudgetBisection
    \/ BudgetRefine
    \/ BudgetNext

SpecBudget == InitBudget /\ [][NextBudget]_vars

budget_running == pc = "budget" /\ query.kind = "budget"

\* C37: on every state the macro solver passes to step_lower_bound (quality
\* upper bound >= max_quality), the 8-bit step budget never leaves its range:
\* neither hi *= 2 nor hi += 1 overflows or wraps, and the loops go on to
\* return.
C37_BudgetNeverOverflows ==
    budget_running => query.phase \notin { "panicked", "wrapped" }

\* step_lower_bound has returned a budget
C37_WitnessReturned ==
    /\ budget_running
    /\ query.phase = "returned"
    /\ query.hi > 1

\* the refinement has left the range of the budget
C37_WitnessOverflow ==
    /\ budget_running
    /\ query.phase \in { "panicked", "wrapped" }
    /\ query.tests = U8MAX

\* the slow DP is asked about a budget beyond any the durability allows
C37_WitnessStalled ==
    /\ budget_running
    /\ query.phase = "refine"
    /\ query.hi > 5 * MaxDurabilityUnits

(***************************************************************************)
(* The two DPs one step of their recursion at a time: the quality           *)
(* upper-bound solver as in SpecQ, and the fast and slow step DPs on the    *)
(* same explicit call stack, so that the segments of the Pareto builder     *)
(* can be counted at every point of a solve_state call.                     *)
(***************************************************************************)
MaxSegQueries == 1

MaxSegBudget == 3

\* the states asked about: the start state of the recipe and its children
seg_states(cfg) ==
    { NewState(cfg) }
    \cup { use_action(NewState(cfg), a, "Normal", cfg).state :
             a \in { b \in cfg.allowed_actions :
                       use_action(NewState(cfg), b, "Normal", cfg).ok } }

\* the recipes of QSettingsChoices that allow MasterMend
SegSettingsChoices ==
    { c \in QSettingsChoices : "MasterMend" \in c.allowed_actions }

InitSeg ==
    /\ settings \in SegSettingsChoices
    /\ backload_progress = FALSE
    /\ pc = "idle"
    /\ InitMacroVars
    /\ quality_upper_bound_solver = NewQualitySolver
    /\ step_lower_bound_solver = NewStepLowerBoundSolver
    /\ query = [ kind |-> "none", plays |-> 0, count |-> 0 ]
    /\ sim_state \in seg_states(settings)

\* QualityUpperBoundSolver::quality_upper_bound up to its call of solve_state
SegQualityEnter ==
    /\ query.count < MaxSegQueries
    /\ QEnter

\* the step DP of a kind
step_solver_of(kind) ==
    IF kind = "fast" THEN step_lower_bound_solver.fast_solver
    ELSE step_lower_bound_solver.slow_solver

\* the step solver with its DP of a kind replaced by T
step_solver_with_dp(kind, T) ==
    IF kind = "fast" THEN [ step_lower_bound_solver EXCEPT !.fast_solver = T ]
    ELSE [ step_lower_bound_solver EXCEPT !.slow_solver = T ]

\* StepLowerBoundSolverImpl::quality_upper_bound up to its call of
\* solve_state: a solved state is answered at once
SegStepEnterOn(kind, reduced_state) ==
    IF reduced_state \in DOMAIN step_solver_of(kind).solved_states
    THEN /\ query' = [ kind |-> "none", plays |-> query.plays,
                       count |-> query.count + 1 ]
         /\ UNCHANGED << pc, step_lower_bound_solver >>
    ELSE /\ pc' = "stepping"
         /\ step_lower_bound_solver' =
                step_solver_with_dp(
                    kind,
                    [ step_solver_of(kind) EXCEPT !.stack =
                        << Frame("solve_state", reduced_state, "none") >> ])
         /\ query' = [ kind |-> "none", plays |-> query.plays,
                       count |-> query.count, dp |-> kind ]

SegStepEnter ==
    /\ pc = "idle"
    /\ query.count < MaxSegQueries
    /\ \E kind \in { "fast", "slow" }, step_budget \in 1..MaxSegBudget :
           SegStepEnterOn(kind, step_from_state(kind, sim_state, step_budget))
    /\ UNCHANGED << settings, backload_progress, macro_vars,
                    quality_upper_bound_solver, sim_state >>

\* one step of solve_state of the step DP
SegStep ==
    /\ pc = "stepping"
    /\ step_solver_of(query.dp).stack # << >>
    /\ step_lower_bound_solver' =
           step_solver_with_dp(
               query.dp,
               step_solve_state(
                   step_solver_of(query.dp), top(step_solver_of(query.dp)),
                   query.dp,
                   StepLowerBoundSolverImpl_settings(query.dp, settings)))
    /\ UNCHANGED << settings, backload_progress, pc, macro_vars,
                    quality_upper_bound_solver, query, sim_state >>

\* solve_state has returned: self.pareto_front_builder.clear()
SegStepLeave ==
    /\ pc = "stepping"
    /\ step_solver_of(query.dp).stack = << >>
    /\ step_lower_bound_solver' =
           step_solver_with_dp(
               query.dp,
               [ step_solver_of(query.dp) EXCEPT
                   !.pareto_front_builder = clear(@) ])
    /\ pc' = "idle"
    /\ query' = [ kind |-> "none", plays |-> query.plays,
                  count |-> query.count + 1 ]
    /\ UNCHANGED << settings, backload_progress, macro_vars,
                    quality_upper_bound_solver, sim_state >>

NextSeg ==
    \/ SegQualityEnter
    \/ QStep
    \/ QLeave
    \/ QInterrupt
    \/ QTake
    \/ SegStepEnter
    \/ SegStep
    \/ SegStepLeave

SpecSeg == InitSeg /\ [][NextSeg]_vars

\* the segments a call of the quality solver that has not returned has on
\* the builder: its own front once pushed, and on top of it the front of a
\* child whose solve has just returned to it
quality_frame_segments(f, is_top) ==
    IF f.fn = "solve_state" THEN 0
    ELSE IF f.fn = "solve_normal_state"
    THEN IF f.at = "entry" THEN 0 ELSE 1
    ELSE IF f.fn = "solve_combo_state"
    THEN IF f.at = "entry" THEN 0
         ELSE IF f.at = "solved" THEN (IF is_top THEN 1 ELSE 0)
         ELSE 1
    ELSE IF f.at = "solved" /\ is_top THEN 1 ELSE 0

\* the same for a call of solve_state of the step DP
step_frame_segments(f, is_top) ==
    IF f.at = "entry" THEN 0
    ELSE IF f.at = "solved" /\ is_top THEN 2
    ELSE 1

RECURSIVE quality_stack_segments(_, _)
quality_stack_segments(stack, n) ==
    IF n = 0 THEN 0
    ELSE quality_stack_segments(stack, n - 1)
         + quality_frame_segments(stack[n], n = Len(stack))

RECURSIVE step_stack_segments(_, _)
step_stack_segments(stack, n) ==
    IF n = 0 THEN 0
    ELSE step_stack_segments(stack, n - 1)
         + step_frame_segments(stack[n], n = Len(stack))

\* the number of segments: one for each call under way that has pushed its
\* front, one more for a child front not yet merged, and one when the
\* outermost solve_state has returned
segments_as_counted(T, counted) ==
    Len(T.pareto_front_builder.segments)
        = IF T.stack = << >> THEN 1 ELSE counted

\* the quality DP is running and no call has returned None
quality_dp_running ==
    /\ pc = "solving"
    /\ quality_upper_bound_solver.ok

quality_top == top(quality_upper_bound_solver)

step_dp_running == pc = "stepping"

step_top == top(step_solver_of(query.dp))

\* the next step of the quality DP is a merge, after a push in the same step
\* or on the front a child has left
quality_merges_next ==
    /\ quality_upper_bound_solver.stack # << >>
    /\ quality_top.fn = "build_child_front"

\* the next step of the quality DP is save()
quality_saves_next ==
    /\ quality_upper_bound_solver.stack # << >>
    /\ quality_top.fn = "solve_normal_state"
    /\ quality_top.at = "loop"
    /\ quality_top.i > Len(search_actions_of(quality_top.state))

step_saves_next ==
    /\ step_solver_of(query.dp).stack # << >>
    /\ step_top.at = "loop"
    /\ step_top.i > Len(actions_iter(
           StepLowerBoundSolverImpl_settings(query.dp, settings).allowed_actions))

\* C38: in both DP solvers a completed solve_state call leaves exactly one
\* more segment on the Pareto builder than there was before it, and each
\* child-front step (push or recursive solve, shift, merge) leaves the count
\* unchanged, so that the builder holds one segment per call under way; merge
\* is never called with fewer than two segments and save never with none.
C38_SegmentCount ==
    /\ quality_dp_running =>
         /\ segments_as_counted(
                quality_upper_bound_solver,
                quality_stack_segments(quality_upper_bound_solver.stack,
                                       Len(quality_upper_bound_solver.stack)))
         /\ quality_merges_next =>
                Len(quality_upper_bound_solver.pareto_front_builder.segments)
                    >= (IF quality_top.at = "solved" THEN 2 ELSE 1)
         /\ quality_saves_next =>
                Len(quality_upper_bound_solver.pareto_front_builder.segments) >= 1
    /\ step_dp_running =>
         /\ segments_as_counted(
                step_solver_of(query.dp),
                step_stack_segments(step_solver_of(query.dp).stack,
                                    Len(step_solver_of(query.dp).stack)))
         /\ step_saves_next =>
                Len(step_solver_of(query.dp).pareto_front_builder.segments) >= 1

\* a solve_state of the quality DP with calls below it has returned to
\* build_child_front, its front on top of those of the calls under way
C38_Witness ==
    /\ quality_dp_running
    /\ Len(quality_upper_bound_solver.stack) >= 4
    /\ quality_top.fn = "build_child_front"
    /\ quality_top.at = "solved"
    /\ Len(quality_upper_bound_solver.pareto_front_builder.segments) >= 3

\* the same in the step DP
C38_WitnessStep ==
    /\ step_dp_running
    /\ Len(step_solver_of(query.dp).stack) >= 2
    /\ step_top.at = "solved"
    /\ Len(step_solver_of(query.dp).pareto_front_builder.segments) >= 3

\* the outermost calls have returned
C38_WitnessCompleted ==
    /\ quality_dp_running
    /\ quality_upper_bound_solver.stack = << >>
    /\ quality_upper_bound_solver.solved_states # << >>

C38_WitnessStepCompleted ==
    /\ step_dp_running
    /\ step_solver_of(query.dp).stack = << >>
    /\ query.dp = "slow"

\* a combo state of the quality DP at work on the front of its state
\* without the combo
C38_WitnessCombo ==
    /\ quality_dp_running
    /\ quality_upper_bound_solver.stack # << >>
    /\ quality_top.fn = "solve_combo_state"
    /\ quality_top.at = "actions"

(***************************************************************************)
(* The bound of the step DPs as a function of the step budget: each DP is  *)
(* asked about the budgets 1, 2, 3, ... of a state in turn, on the solver   *)
(* and memo tables the earlier answers have left.                           *)
(***************************************************************************)
MaxSweepBudget == 6

\* the recipes of the step solver's checks, and the same with a quality
\* that takes several steps
SweepSettingsChoices ==
    StepSettingsChoices
    \cup { [ c EXCEPT !.max_quality = MaxQuality ] :
             c \in { d \in StepSettingsChoices : ~d.adversarial } }

\* the states asked about: those random_state draws and their children
sweep_states(cfg) ==
    random_states(cfg)
    \cup { use_action(p[1], p[2], "Normal", cfg).state :
             p \in { q \in random_states(cfg) \X cfg.allowed_actions :
                       use_action(q[1], q[2], "Normal", cfg).ok } }

InitSweep ==
    /\ settings \in SweepSettingsChoices
    /\ backload_progress = FALSE
    /\ pc = "sweep"
    /\ InitMacroVars
    /\ quality_upper_bound_solver = NewQualitySolver
    /\ step_lower_bound_solver = NewStepLowerBoundSolver
    /\ query = [ kind |-> "sweep", fast |-> << >>, slow |-> << >> ]
    /\ sim_state \in sweep_states(settings)

\* the answer q of a DP is put down after its earlier answers
SweepAnswered(kind, q) ==
    /\ step_lower_bound_solver' = q.SS
    /\ query' = IF kind = "fast"
                THEN [ query EXCEPT !.fast = Append(@, q.result) ]
                ELSE [ query EXCEPT !.slow = Append(@, q.result) ]

\* self.fast_solver.quality_upper_bound(state, step_budget) for the next
\* step budget
SweepFast ==
    /\ pc = "sweep"
    /\ ~is_final(sim_state, settings)
    /\ Len(query.fast) < MaxSweepBudget
    /\ SweepAnswered("fast",
           solver_quality_upper_bound(step_lower_bound_solver, "fast",
                                      sim_state, Len(query.fast) + 1,
                                      settings))
    /\ UNCHANGED << settings, backload_progress, pc, macro_vars,
                    quality_upper_bound_solver, sim_state >>

\* self.slow_solver.quality_upper_bound(state, step_budget) for the next
\* step budget
SweepSlow ==
    /\ pc = "sweep"
    /\ ~is_final(sim_state, settings)
    /\ Len(query.slow) < MaxSweepBudget
    /\ SweepAnswered("slow",
           solver_quality_upper_bound(step_lower_bound_solver, "slow",
                                      sim_state, Len(query.slow) + 1,
                                      settings))
    /\ UNCHANGED << settings, backload_progress, pc, macro_vars,
                    quality_upper_bound_solver, sim_state >>

NextSweep == SweepFast \/ SweepSlow

SpecSweep == InitSweep /\ [][NextSweep]_vars

sweeping == pc = "sweep" /\ query.kind = "sweep"

\* a bound as step_lower_bound reads it, against max_quality
capped(bound) == Min(bound, settings.max_quality)

\* the answers of a DP never come down from one budget to the next
non_decreasing(bounds) ==
    \A k \in 1..(Len(bounds) - 1) : bounds[k] <= bounds[k + 1]

\* C39 as stated: for every state and every step budget k >= 1 the quality
\* bound of the step DP, fast or slow, is non-decreasing in k.  The loop of
\* solve_state stops at the first front that is_max, so above max_quality
\* the bound depends on where the loop stopped.
C39_BoundMonotoneInBudget ==
    sweeping => non_decreasing(query.fast) /\ non_decreasing(query.slow)

\* C39 amended: for every state and every step budget k >= 1 the quality
\* bound of the step DP, cut at max_quality, is non-decreasing in k: what is
\* reported as reachable within k steps is reported as reachable within
\* k + 1 steps.
C39_CappedBoundMonotone ==
    sweeping =>
        /\ non_decreasing([ k \in DOMAIN query.fast |-> capped(query.fast[k]) ])
        /\ non_decreasing([ k \in DOMAIN query.slow |-> capped(query.slow[k]) ])

\* a state whose bound grows with the budget up to max_quality and comes
\* down again above it
C39_Witness ==
    /\ sweeping
    /\ Len(query.slow) = MaxSweepBudget
    /\ capped(query.slow[1]) < capped(query.slow[MaxSweepBudget])
    /\ \E k \in 1..(MaxSweepBudget - 1) :
           /\ query.slow[k] > query.slow[k + 1]
           /\ query.slow[k + 1] >= settings.max_quality

\* a state with some quality whose bound grows by steps below max_quality
C39_WitnessGrows ==
    /\ sweeping
    /\ sim_state.quality > 0
    /\ \E k \in 1..(Len(query.fast) - 1) :
           /\ 0 < query.fast[k]
           /\ query.fast[k] < query.fast[k + 1]
           /\ query.fast[k + 1] < settings.max_quality

\* a state that cannot finish in one step: the bound of one step is 0
C39_WitnessZero ==
    /\ sweeping
    /\ Len(query.fast) >= 2
    /\ query.fast[1] = 0
    /\ query.fast[2] > 0

\* the budgets both DPs have answered for
swept_budgets == 1..Min(Len(query.fast), Len(query.slow))

\* C40 as stated: for every state and every step budget k the quality bound
\* of the durability-free (fast) step DP is >= the quality bound of the
\* durability-aware (slow) step DP.  Above max_quality either bound depends
\* on where the loop of solve_state stopped at is_max.
C40_FastAtLeastSlow ==
    sweeping => \A k \in swept_budgets : query.fast[k] >= query.slow[k]

\* C40 amended: for every state and every step budget k the quality bound of
\* the fast step DP, cut at max_quality, is >= the quality bound of the slow
\* step DP, cut at max_quality, so the minimum budget found on the fast DP
\* never exceeds the minimum budget of the slow DP.
C40_CappedFastAtLeastSlow ==
    sweeping =>
        /\ \A k \in swept_budgets :
               capped(query.fast[k]) >= capped(query.slow[k])
        /\ \A k \in swept_budgets :
               query.slow[k] >= settings.max_quality
                   => \E j \in 1..k : query.fast[j] >= settings.max_quality

\* the fast DP reaches max_quality on a budget on which the slow DP does not,
\* and the slow DP reaches it later
C40_Witness ==
    /\ sweeping
    /\ Len(query.fast) = MaxSweepBudget
    /\ Len(query.slow) = MaxSweepBudget
    /\ \E k \in swept_budgets :
           /\ query.fast[k] >= settings.max_quality
           /\ query.slow[k] < settings.max_quality
    /\ query.slow[MaxSweepBudget] >= settings.max_quality

\* above max_quality the slow DP reports more than the fast DP
C40_WitnessAbove ==
    /\ sweeping
    /\ \E k \in swept_budgets :
           /\ query.slow[k] > query.fast[k]
           /\ query.fast[k] >= settings.max_quality

\* below max_quality the two DPs differ
C40_WitnessBelow ==
    /\ sweeping
    /\ \E k \in swept_budgets :
           /\ 0 < query.slow[k]
           /\ query.slow[k] < query.fast[k]
           /\ query.fast[k] < settings.max_quality

====
